---- MODULE Spec2Model ----
(***************************************************************************)
(* Model of the nutrient resolution / aggregation pipeline of              *)
(* Backend/fdc_utils.py (FoodData Central resolver with its on-disk cache  *)
(* and its retrying HTTP helper) and Backend/app.py (the analyze_items     *)
(* handler that scales and accumulates the resolved vectors).              *)
(*                                                                         *)
(* Five specifications share the definitions:                              *)
(*   Spec        one analyze_items request, an action per loop iteration;  *)
(*   SpecLookup  lookup_food_nutrients called several times in a row, an   *)
(*               action per _safe_get call and its handling;               *)
(*   SpecDv      the percent-of-daily-value summary of a request;          *)
(*   SpecRace    lookup_food_nutrients called by concurrent workers that   *)
(*               share the cache file;                                     *)
(*   SpecConv    a float converted to another unit and back.               *)
(*                                                                         *)
(* Conventions.                                                            *)
(*  - A Python string that the code strips or lower-cases is a sequence    *)
(*    of one-character strings; other strings are TLA+ strings.            *)
(*  - A Python scalar is a tagged record [t, v]: t = "num" (a number v),   *)
(*    "none" (None), "str" (a string that float() rejects), "missing"      *)
(*    (the key is absent from the dict).                                   *)
(*  - A Python dict is a function on the set of its keys; {} is <<>>.      *)
(*  - Amounts and totals are integers; the sample records carry amounts    *)
(*    for which every unit conversion is exact. Percents are tenths, the   *)
(*    quotient rounded exactly. SpecConv alone computes in binary64.       *)
(*  - Outside SpecRace the cache file is written and read back without     *)
(*    I/O errors; its                                                      *)
(*    "timestamp" field, which no code reads, is left out.                 *)
(***************************************************************************)
EXTENDS Integers, Sequences, FiniteSets, TLC

\* Largest number of items of one analyze_items batch.
MaxItems == 2

\* Largest number of successive lookup_food_nutrients calls of SpecLookup.
MaxLookups == 2

\* range(3) in _safe_get.
MaxAttempts == 3

-----------------------------------------------------------------------------
(* Python scalars *)

PyNone == [t |-> "none", v |-> 0]
PyMissing == [t |-> "missing", v |-> 0]
PyStr == [t |-> "str", v |-> 0]
Num(x) == [t |-> "num", v |-> x]

\* bool(x) for a scalar: None, 0 and absent values are falsy; "abc" is truthy.
Truthy(x) == \/ x.t = "str"
             \/ x.t = "num" /\ x.v # 0

\* d.get(k) of a dict whose absent keys are marked PyMissing.
Get(x) == IF x.t = "missing" THEN PyNone ELSE x

\* d.get(k, default).
GetDefault(x, d) == IF x.t = "missing" THEN d ELSE x

\* a or b.
PyOr(a, b) == IF Truthy(a) THEN a ELSE b

\* float(x) succeeds (no ValueError / TypeError).
FloatOk(x) == x.t = "num"

EmptyDict == <<>>

-----------------------------------------------------------------------------
(* Strings that are stripped and lower-cased *)

IsSpace(ch) == ch = " "

RECURSIVE LStrip(_)
LStrip(s) == IF s # <<>> /\ IsSpace(Head(s)) THEN LStrip(Tail(s)) ELSE s

RECURSIVE RStrip(_)
RStrip(s) == IF s # <<>> /\ IsSpace(s[Len(s)])
             THEN RStrip(SubSeq(s, 1, Len(s) - 1))
             ELSE s

\* str.strip()
Strip(s) == RStrip(LStrip(s))

LowerChar(ch) ==
    CASE ch = "A" -> "a"
      [] ch = "B" -> "b"
      [] ch = "C" -> "c"
      [] ch = "D" -> "d"
      [] ch = "E" -> "e"
      [] ch = "F" -> "f"
      [] ch = "G" -> "g"
      [] ch = "H" -> "h"
      [] ch = "I" -> "i"
      [] ch = "J" -> "j"
      [] ch = "K" -> "k"
      [] ch = "L" -> "l"
      [] ch = "M" -> "m"
      [] ch = "N" -> "n"
      [] ch = "O" -> "o"
      [] ch = "P" -> "p"
      [] ch = "Q" -> "q"
      [] ch = "R" -> "r"
      [] ch = "S" -> "s"
      [] ch = "T" -> "t"
      [] ch = "U" -> "u"
      [] ch = "V" -> "v"
      [] ch = "W" -> "w"
      [] ch = "X" -> "x"
      [] ch = "Y" -> "y"
      [] ch = "Z" -> "z"
      [] OTHER -> ch

\* str.lower()
Lower(s) == [i \in 1..Len(s) |-> LowerChar(s[i])]

\* key = query.lower().strip()
CacheKey(query) == Strip(Lower(query))

-----------------------------------------------------------------------------
(* Python dicts *)

\* d[k] = v
Put(d, k, v) == [x \in DOMAIN d \cup {k} |-> IF x = k THEN v ELSE d[x]]

-----------------------------------------------------------------------------
(* fdc_utils.py: mapping of a FoodData Central record to a nutrient vector *)

\* Stands for the unit string written with the Greek letter mu.
MicroG == "<mu>g"

\* _NUTRIENT_MAPPING.get(name): <<key, expected_unit>>, or <<>> for None.
NutrientMapping(name) ==
    CASE name = "Energy" -> <<"calories_kcal", "kcal">>
      [] name = "Energy (kcal)" -> <<"calories_kcal", "kcal">>
      [] name = "Protein" -> <<"protein_g", "g">>
      [] name = "Total lipid (fat)" -> <<"total_fat_g", "g">>
      [] name = "Fat" -> <<"total_fat_g", "g">>
      [] name = "Fatty acids, total saturated" -> <<"saturated_fat_g", "g">>
      [] name = "Carbohydrate, by difference" -> <<"total_carbohydrate_g", "g">>
      [] name = "Carbohydrate" -> <<"total_carbohydrate_g", "g">>
      [] name = "Fiber, total dietary" -> <<"dietary_fiber_g", "g">>
      [] name = "Sugars, total including NLEA" -> <<"sugars_g", "g">>
      [] name = "Sugars, total" -> <<"sugars_g", "g">>
      [] name = "Calcium, Ca" -> <<"calcium_mg", "mg">>
      [] name = "Iron, Fe" -> <<"iron_mg", "mg">>
      [] name = "Magnesium, Mg" -> <<"magnesium_mg", "mg">>
      [] name = "Phosphorus, P" -> <<"phosphorus_mg", "mg">>
      [] name = "Potassium, K" -> <<"potassium_mg", "mg">>
      [] name = "Sodium, Na" -> <<"sodium_mg", "mg">>
      [] name = "Zinc, Zn" -> <<"zinc_mg", "mg">>
      [] name = "Selenium, Se" -> <<"selenium_mcg", "mcg">>
      [] name = "Vitamin C, total ascorbic acid" -> <<"vitamin_C_mg", "mg">>
      [] name = "Vitamin D (D2 + D3)" -> <<"vitamin_D_mcg", "mcg">>
      [] name = "Vitamin A, RAE" -> <<"vitamin_A_mcg_RAE", "mcg">>
      [] name = "Vitamin E (alpha-tocopherol)" -> <<"vitamin_E_mg", "mg">>
      [] name = "Vitamin K (phylloquinone)" -> <<"vitamin_K_mcg", "mcg">>
      [] name = "Thiamin" -> <<"thiamin_mg", "mg">>
      [] name = "Riboflavin" -> <<"riboflavin_mg", "mg">>
      [] name = "Niacin" -> <<"niacin_mg_NE", "mg">>
      [] name = "Vitamin B-6" -> <<"vitamin_B6_mg", "mg">>
      [] name = "Folate, total" -> <<"folate_mcg_DFE", "mcg">>
      [] name = "Folate, DFE" -> <<"folate_mcg_DFE", "mcg">>
      [] name = "Vitamin B-12" -> <<"vitamin_B12_mcg", "mcg">>
      [] name = "Biotin" -> <<"biotin_mcg", "mcg">>
      [] name = "Pantothenic acid" -> <<"pantothenic_acid_mg", "mg">>
      [] name = "Cholesterol" -> <<"cholesterol_mg", "mg">>
      [] name = "Cholesterol, total" -> <<"cholesterol_mg", "mg">>
      [] OTHER -> <<>>

\* _as_float_safe(x): the number, or None.
AsFloatSafe(x) == IF x.t = "num" THEN x ELSE PyNone

\* (unit or "").lower() for the unit strings of the sample records.
LowerUnit(u) == CASE u = "G" -> "g"
                  [] u = "MG" -> "mg"
                  [] u = "MCG" -> "mcg"
                  [] u = "UG" -> "ug"
                  [] u = "KCAL" -> "kcal"
                  [] OTHER -> u

\* Mutant of UnitScale: the branch from mg to g is lost.
UnitScaleNoMgToG(from_unit, to_unit) ==
    LET f == LowerUnit(from_unit)
        t == LowerUnit(to_unit)
    IN CASE f = t -> "x1"
         [] f # t /\ f \in {"mcg", MicroG} /\ t = "mg" -> "/1000"
         [] f = "mg" /\ t \in {"mcg", MicroG} -> "x1000"
         [] f = "g" /\ t = "mg" -> "x1000"
         [] OTHER -> "x1"

\* The arithmetic _convert_unit applies to value: "x1000" (* 1000.0),
\* "/1000" (/ 1000.0) or "x1" (the value as it is).
UnitScale(from_unit, to_unit) ==
    LET f == LowerUnit(from_unit)
        t == LowerUnit(to_unit)
    IN CASE f = t -> "x1"
         [] f # t /\ f \in {"mcg", MicroG} /\ t = "mg" -> "/1000"
         [] f = "mg" /\ t \in {"mcg", MicroG} -> "x1000"
         [] f = "g" /\ t = "mg" -> "x1000"
         [] f = "mg" /\ t = "g" -> "/1000"
         [] OTHER -> "x1"

\* _convert_unit(value, from_unit, to_unit), on whole amounts
ConvertUnit(value, from_unit, to_unit) ==
    IF value.t = "none" THEN PyNone
    ELSE CASE UnitScale(from_unit, to_unit) = "/1000" -> Num(value.v \div 1000)
           [] UnitScale(from_unit, to_unit) = "x1000" -> Num(value.v * 1000)
           [] OTHER -> value

\* One pass of the loop over food_json["foodNutrients"]; a line is
\* [name, amount, unit] with name = "" and unit = "" for absent fields.
\* expected_unit holds no "_", so the three replace() calls leave it as it is.
ExtractLine(out, comp) ==
    IF comp.name = "" \/ comp.amount.t \in {"none", "missing"} THEN out
    ELSE LET mapped == NutrientMapping(comp.name) IN
         IF mapped = <<>> THEN out
         ELSE LET amt == AsFloatSafe(comp.amount)
                  normalized == IF mapped[2] # "" /\ comp.unit # ""
                                THEN ConvertUnit(amt, comp.unit, mapped[2])
                                ELSE amt
              IN Put(out, mapped[1], IF normalized.t # "none" THEN normalized ELSE amt)

RECURSIVE ExtractLines(_, _)
ExtractLines(out, comps) ==
    IF comps = <<>> THEN out
    ELSE ExtractLines(ExtractLine(out, Head(comps)), Tail(comps))

\* label_map.get(k): the key, or "" when k is not in label_map.
LabelMap(k) == CASE k = "calories" -> "calories_kcal"
                 [] k = "protein" -> "protein_g"
                 [] k = "fat" -> "total_fat_g"
                 [] k = "saturatedFat" -> "saturated_fat_g"
                 [] k = "transFat" -> "trans_fat_g"
                 [] k = "cholesterol" -> "cholesterol_mg"
                 [] k = "sodium" -> "sodium_mg"
                 [] k = "carbohydrates" -> "total_carbohydrate_g"
                 [] k = "fiber" -> "dietary_fiber_g"
                 [] k = "sugars" -> "sugars_g"
                 [] k = "calcium" -> "calcium_mg"
                 [] k = "iron" -> "iron_mg"
                 [] OTHER -> ""

\* The loop over food_json["labelNutrients"].items(); an item is
\* [k, isdict, value], value being v.get("value").
RECURSIVE ExtractLabels(_, _)
ExtractLabels(out, label) ==
    IF label = <<>> THEN out
    ELSE LET e == Head(label)
             amt == AsFloatSafe(Get(e.value))
         IN IF LabelMap(e.k) # "" /\ e.isdict /\ amt.t # "none"
            THEN ExtractLabels(Put(out, LabelMap(e.k), amt), Tail(label))
            ELSE ExtractLabels(out, Tail(label))

\* extract_nutrients_from_fdc(food_json)
ExtractNutrientsFromFdc(food_json) ==
    IF food_json.k # "obj" THEN EmptyDict
    ELSE LET out == ExtractLines(EmptyDict, food_json.foodNutrients)
         IN IF out = EmptyDict
            THEN ExtractLabels(out, food_json.labelNutrients)
            ELSE out

-----------------------------------------------------------------------------
(* The remote service: the JSON bodies it can answer with *)

\* A JSON body: k = "none" is Python None, "empty" is {}, "obj" a non-empty
\* object with the fields the code reads (foods of a search answer as the
\* list of their fdcId; foodNutrients and labelNutrients of a detail record).
Json(k, foods, fn, ln) ==
    [k |-> k, foods |-> foods, foodNutrients |-> fn, labelNutrients |-> ln]

JsonNone == Json("none", <<>>, <<>>, <<>>)
JsonEmpty == Json("empty", <<>>, <<>>, <<>>)

\* bool(json)
JsonTruthy(j) == j.k = "obj"

Line(name, amount, unit) == [name |-> name, amount |-> amount, unit |-> unit]
Label(k, value) == [k |-> k, isdict |-> TRUE, value |-> value]

FdcIds == {1, 2, 3, 4}

\* The detail record the service holds for an fdcId.
FoodRecord(fdcId) ==
    CASE fdcId = 1 -> Json("obj", <<>>,
                           <<Line("Energy", Num(52), "KCAL"),
                             Line("Protein", Num(1), "G"),
                             Line("Calcium, Ca", Num(1), "G"),
                             Line("Water", Num(80), "G")>>, <<>>)
      [] fdcId = 2 -> Json("obj", <<>>, <<>>,
                           <<Label("protein", Num(3)), Label("fat", Num(0)),
                             Label("potassium", Num(7))>>)
      [] fdcId = 3 -> Json("obj", <<>>,
                           <<Line("Water", Num(80), "G")>>, <<>>)
      [] OTHER -> Json("obj", <<>>,
                       <<Line("Energy", Num(-5), "KCAL")>>, <<>>)

\* Bodies of a 200 answer to the search request.
SearchBodies ==
    {JsonEmpty, Json("obj", <<>>, <<>>, <<>>), Json("obj", <<2, 1>>, <<>>, <<>>)}
        \cup {Json("obj", <<i>>, <<>>, <<>>) : i \in FdcIds}

-----------------------------------------------------------------------------
(* app.py: scaling and accumulation *)

\* d.get(k) of a dict that is a function on its keys.
DictGet(d, k) == IF k \in DOMAIN d THEN d[k] ELSE PyNone

\* _as_float(x)
AsFloat(x) == IF x.t = "num" THEN x ELSE PyNone

\* scale_nutrients(nutrients, multiplier): entries that are not numbers are
\* dropped, the others multiplied; the result holds plain numbers.
ScaleNutrients(nutrients, multiplier) ==
    [k \in {x \in DOMAIN nutrients : AsFloat(nutrients[x]).t = "num"} |->
        nutrients[k].v * multiplier]

\* merge_totals(agg, add)
MergeTotals(agg, add) ==
    [k \in DOMAIN agg \cup DOMAIN add |->
        (IF k \in DOMAIN agg THEN agg[k] ELSE 0)
      + (IF k \in DOMAIN add THEN add[k] ELSE 0)]

\* The lambda "get" of compute_item_macros.
MacroGet(nutrients, key) ==
    IF nutrients = EmptyDict THEN PyNone ELSE AsFloat(DictGet(nutrients, key))

\* compute_item_macros(nutrients)
ComputeItemMacros(nutrients) ==
    LET get(key) == MacroGet(nutrients, key)
        calories0 == get("calories_kcal")
        protein == get("protein_g")
        carbs == PyOr(get("total_carbohydrate_g"), get("total_carbohydrate"))
        fat == PyOr(PyOr(get("total_fat_g"), get("fat")), get("fat_g"))
        fiber == PyOr(PyOr(get("dietary_fiber_g"), get("fiber_g")), get("fiber"))
        sugars == PyOr(PyOr(get("sugars_g"), get("sugars")), get("sugar_g"))
        calories ==
            IF calories0.t = "none"
               /\ (protein.t # "none" \/ carbs.t # "none" \/ fat.t # "none")
            THEN Num(PyOr(protein, Num(0)).v * 4 + PyOr(carbs, Num(0)).v * 4
                     + PyOr(fat, Num(0)).v * 9)
            ELSE calories0
    IN [k \in {"calories_kcal", "protein_g", "total_carbohydrate_g",
               "total_fat_g", "dietary_fiber_g", "sugars_g"} |->
          CASE k = "calories_kcal" -> calories
            [] k = "protein_g" -> protein
            [] k = "total_carbohydrate_g" -> carbs
            [] k = "total_fat_g" -> fat
            [] k = "dietary_fiber_g" -> fiber
            [] OTHER -> sugars]

\* The two merges of analyze_items for an item whose lookup gave nutrients:
\* the scaled vector, then the scaled macros computed from the same vector.
AddResolved(tot, nutrients, multiplier) ==
    MergeTotals(MergeTotals(tot, ScaleNutrients(nutrients, multiplier)),
                ScaleNutrients(ComputeItemMacros(nutrients), multiplier))

\* The manual-calories branch: float(manual_cal) may raise, which is passed.
AddManual(tot, manual_cal, multiplier) ==
    IF FloatOk(manual_cal)
    THEN Put(tot, "calories_kcal",
             (IF "calories_kcal" \in DOMAIN tot THEN tot["calories_kcal"] ELSE 0)
             + manual_cal.v * multiplier)
    ELSE tot

-----------------------------------------------------------------------------
(* The items a client can submit *)

Item(item, quantity, portion_mult, calories, manual_calories) ==
    [item |-> item, quantity |-> quantity, portion_mult |-> portion_mult,
     calories |-> calories, manual_calories |-> manual_calories]

Items ==
    { Item(<<"a">>, PyMissing, PyMissing, PyMissing, PyMissing),
      Item(<<" ", "A">>, Num(2), Num(3), PyMissing, PyMissing),
      Item(<<"a">>, Num(0), PyMissing, Num(100), PyMissing),
      Item(<<"b">>, PyStr, PyMissing, PyMissing, PyMissing),
      Item(<<"b">>, Num(2), Num(0), Num(100), PyMissing),
      Item(<<"b">>, PyMissing, PyMissing, Num(0), PyMissing),
      Item(<<"b">>, PyNone, PyStr, PyMissing, PyMissing),
      Item(<<"b">>, PyMissing, Num(2), PyStr, PyMissing),
      Item(<<"b">>, PyMissing, PyMissing, PyMissing, Num(0)),
      Item(<<" ">>, Num(2), PyMissing, Num(100), PyMissing),
      Item(<<>>, PyMissing, PyMissing, PyMissing, PyMissing) }

\* Mutant of ItemName: the name is taken as submitted, strip() is lost.
ItemNameAsGiven(c) == c.item

\* name = (c.get("item") or "").strip()
ItemName(c) == Strip(c.item)

\* The argument of float() for qty: c.get("quantity", 1.0) or 1.0
QtyArg(c) == PyOr(GetDefault(c.quantity, Num(1)), Num(1))

\* The argument of float() for portion_mult.
PortionArg(c) == PyOr(GetDefault(c.portion_mult, Num(1)), Num(1))

\* multiplier = qty * portion_mult
Multiplier(c) == QtyArg(c).v * PortionArg(c).v

\* manual_cal = c.get("calories") or c.get("manual_calories")
ManualCal(c) == PyOr(Get(c.calories), Get(c.manual_calories))

-----------------------------------------------------------------------------
(* fdc_utils.py: _safe_get *)

\* What the service does with one requests.get: kind "200" (body is what
\* r.json() gives), "4xx", "5xx" (raise_for_status raises), "timeout"
\* (requests.get or r.json() raises another exception).
Answer(kind, body) == [kind |-> kind, body |-> body]

\* A _safe_get call: asked holds, in order, the kind of answer each
\* requests.get call got, waits the arguments of the time.sleep calls in
\* order, ret the value returned (JsonNone for None).
IdleCall == [url |-> "", asked |-> <<>>, waits |-> <<>>, ret |-> JsonNone]

\* Mutant of SafeGetLoop: one pass too many (range(4)).
RECURSIVE SafeGetLoopFour(_, _, _)
SafeGetLoopFour(attempt, answers, cl) ==
    IF attempt >= MaxAttempts + 1 THEN [cl EXCEPT !.ret = JsonNone]
    ELSE LET a == answers[attempt + 1]
             sent == [cl EXCEPT !.asked = Append(cl.asked, a.kind)]
         IN CASE a.kind = "200" -> [sent EXCEPT !.ret = a.body]
              [] a.kind = "4xx" -> [sent EXCEPT !.ret = JsonNone]
              [] OTHER ->
                   SafeGetLoopFour(attempt + 1, answers,
                                   [sent EXCEPT !.waits = Append(cl.waits, 1 + attempt)])

\* Mutant of SafeGetLoop: a 4xx answer is retried like a 5xx one.
RECURSIVE SafeGetLoopRetry4xx(_, _, _)
SafeGetLoopRetry4xx(attempt, answers, cl) ==
    IF attempt >= MaxAttempts THEN [cl EXCEPT !.ret = JsonNone]
    ELSE LET a == answers[attempt + 1]
             sent == [cl EXCEPT !.asked = Append(cl.asked, a.kind)]
         IN CASE a.kind = "200" -> [sent EXCEPT !.ret = a.body]
              [] OTHER ->
                   SafeGetLoopRetry4xx(attempt + 1, answers,
                                       [sent EXCEPT !.waits = Append(cl.waits, 1 + attempt)])

\* for attempt in range(3), from the pass `attempt` on; answers[i] is what
\* the service does with the i-th request of the call.
RECURSIVE SafeGetLoop(_, _, _)
SafeGetLoop(attempt, answers, cl) ==
    IF attempt >= MaxAttempts THEN [cl EXCEPT !.ret = JsonNone]
    ELSE LET a == answers[attempt + 1]
             sent == [cl EXCEPT !.asked = Append(cl.asked, a.kind)]
         IN CASE a.kind = "200" -> [sent EXCEPT !.ret = a.body]
              [] a.kind = "4xx" -> [sent EXCEPT !.ret = JsonNone]
              [] OTHER ->
                   SafeGetLoop(attempt + 1, answers,
                               [sent EXCEPT !.waits = Append(cl.waits, 1 + attempt)])

\* _safe_get(url, params)
SafeGet(key, url, answers) ==
    IF ~key THEN [IdleCall EXCEPT !.url = url]
    ELSE SafeGetLoop(0, answers, [IdleCall EXCEPT !.url = url])

\* Mutant of SearchFood: the requests are sent whether API_KEY is set or not.
SearchFoodUnguarded(key, answers) ==
    SafeGetLoop(0, answers, [IdleCall EXCEPT !.url = "search"])

\* search_food(query): None without API_KEY, else _safe_get(SEARCH_URL).
SearchFood(key, answers) ==
    IF ~key THEN [IdleCall EXCEPT !.url = "search"]
    ELSE SafeGet(key, "search", answers)

\* get_food_by_fdcid(fdcId): None without API_KEY, else _safe_get(FOOD_URL).
GetFoodByFdcid(key, answers) ==
    IF ~key THEN [IdleCall EXCEPT !.url = "detail"]
    ELSE SafeGet(key, "detail", answers)

\* What the service does with the requests for the record of an fdcId, given
\* as [kind, full]: a 200 answer carries the record (full) or {}.
DetailAnswers(plan, fdcId) ==
    [i \in 1..Len(plan) |->
        Answer(plan[i].kind,
               IF plan[i].kind = "200" /\ plan[i].full
               THEN FoodRecord(fdcId) ELSE JsonEmpty)]

-----------------------------------------------------------------------------
(* fdc_utils.py: lookup_food_nutrients *)

\* What lookup_food_nutrients returns: nutrients (none = TRUE for None) and
\* the provenance dict (fdcId = 0 when it holds none).
LookupResult(none, nutrients, source, fdcId) ==
    [none |-> none, nutrients |-> nutrients,
     provenance |-> [source |-> source, fdcId |-> fdcId]]

NoResult == LookupResult(TRUE, EmptyDict, "", 0)

\* if key in cache: return entry.get("nutrients", {}), entry.get("provenance", {})
CacheHit(cch, key) ==
    LookupResult(FALSE, cch[key].nutrients,
                 cch[key].provenance.source, cch[key].provenance.fdcId)

\* The entry that lookup_food_nutrients stores for a fetched record.
CacheEntry(detail, fdcId) ==
    [nutrients |-> ExtractNutrientsFromFdc(detail),
     provenance |-> [source |-> "fdc", fdcId |-> fdcId]]

\* Mutant of SavedCache: the file is not rewritten.
SavedCacheDropped(old, key, entry) == old

\* _save_cache(cache) after cache[key] = entry: the file becomes the dict
\* that was loaded, with the entry set.
SavedCache(old, key, entry) == Put(old, key, entry)

\* The part of lookup_food_nutrients after search_food returned s:
\* "failed" (not search_res), "no_results" (no foods), or "chosen".
SearchOutcome(s) ==
    IF ~JsonTruthy(s.ret) THEN "failed"
    ELSE IF s.ret.foods = <<>> THEN "no_results"
    ELSE "chosen"

\* chosen = foods[0]; fdcId = chosen.get("fdcId")
ChosenId(s) == Head(s.ret.foods)

\* What is returned when the search gave no food to fetch.
SearchMiss(s) ==
    IF SearchOutcome(s) = "failed"
    THEN LookupResult(TRUE, EmptyDict, "fdc_search_failed", 0)
    ELSE LookupResult(TRUE, EmptyDict, "no_results", 0)

\* Mutant of AfterDetail: a failed detail call is cached as an empty entry.
AfterDetailCachesFailure(old, key, fdcId, d) ==
    IF ~JsonTruthy(d.ret)
    THEN [result |-> LookupResult(TRUE, EmptyDict, "fdc_detail_failed", fdcId),
          cache |-> SavedCache(old, key, CacheEntry(JsonEmpty, fdcId)),
          wrote |-> TRUE]
    ELSE [result |-> LookupResult(FALSE, CacheEntry(d.ret, fdcId).nutrients,
                                  "fdc", fdcId),
          cache |-> SavedCache(old, key, CacheEntry(d.ret, fdcId)),
          wrote |-> TRUE]

\* Mutant of AfterDetail: a record that gives no nutrient is not cached.
AfterDetailSkipEmpty(old, key, fdcId, d) ==
    IF ~JsonTruthy(d.ret)
    THEN [result |-> LookupResult(TRUE, EmptyDict, "fdc_detail_failed", fdcId),
          cache |-> old, wrote |-> FALSE]
    ELSE IF CacheEntry(d.ret, fdcId).nutrients = EmptyDict
    THEN [result |-> LookupResult(FALSE, EmptyDict, "fdc", fdcId),
          cache |-> old, wrote |-> FALSE]
    ELSE [result |-> LookupResult(FALSE, CacheEntry(d.ret, fdcId).nutrients,
                                  "fdc", fdcId),
          cache |-> SavedCache(old, key, CacheEntry(d.ret, fdcId)),
          wrote |-> TRUE]

\* The part of lookup_food_nutrients after get_food_by_fdcid returned d:
\* the value returned and the content of the cache file afterwards.
AfterDetail(old, key, fdcId, d) ==
    IF ~JsonTruthy(d.ret)
    THEN [result |-> LookupResult(TRUE, EmptyDict, "fdc_detail_failed", fdcId),
          cache |-> old, wrote |-> FALSE]
    ELSE [result |-> LookupResult(FALSE, CacheEntry(d.ret, fdcId).nutrients,
                                  "fdc", fdcId),
          cache |-> SavedCache(old, key, CacheEntry(d.ret, fdcId)),
          wrote |-> TRUE]

\* lookup_food_nutrients(query) as a whole, the service answering the search
\* requests with sAns and the detail requests as planned in dPlan.
LookupFoodNutrients(key, cch, query, sAns, dPlan) ==
    LET k == CacheKey(query)
        s == SearchFood(key, sAns)
    IN IF k \in DOMAIN cch
       THEN [result |-> CacheHit(cch, k), cache |-> cch, wrote |-> FALSE]
       ELSE IF SearchOutcome(s) # "chosen"
       THEN [result |-> SearchMiss(s), cache |-> cch, wrote |-> FALSE]
       ELSE AfterDetail(cch, k, ChosenId(s),
                        GetFoodByFdcid(key, DetailAnswers(dPlan, ChosenId(s))))

-----------------------------------------------------------------------------
(* The remote service: what it does with the requests of one call *)

RetryKinds == {"5xx", "timeout"}

\* k failed requests that _safe_get retries, of alternating kinds.
FailRun(k, first) ==
    [i \in 1..k |->
        Answer(IF i % 2 = 1 THEN first ELSE CHOOSE x \in RetryKinds : x # first,
               JsonNone)]

FailRuns == {FailRun(k, first) : k \in 0..MaxAttempts, first \in RetryKinds}

\* Every transcript holds MaxAttempts + 1 answers, one more than _safe_get
\* asks for: past the answers that matter, the service would answer 200.
Pad(t, spare) == t \o [i \in 1..(MaxAttempts + 1 - Len(t)) |-> spare]

SearchLast == {Answer("4xx", JsonNone)} \cup {Answer("200", b) : b \in SearchBodies}

SearchSpare == Answer("200", Json("obj", <<1>>, <<>>, <<>>))

\* The search requests of one call: failures that are retried, then a 4xx
\* or a 200 answer.
SearchTranscripts ==
    {Pad(run \o <<last>>, SearchSpare) : run \in FailRuns, last \in SearchLast}

Plan(kind, full) == [kind |-> kind, full |-> full]

PlanOf(run) == [i \in 1..Len(run) |-> Plan(run[i].kind, FALSE)]

DetailLast == {Plan("4xx", FALSE), Plan("200", TRUE), Plan("200", FALSE)}

\* The same for the detail requests, as plans for DetailAnswers.
DetailPlans ==
    {Pad(PlanOf(run) \o <<last>>, Plan("200", TRUE)) :
        run \in FailRuns, last \in DetailLast}

\* The transcripts under which analyze_items is explored: every last answer
\* at once, and one of them after a retry and after MaxAttempts failures.
SampleSearch ==
    {Pad(<<last>>, SearchSpare) : last \in SearchLast}
        \cup {Pad(FailRun(k, "timeout"), SearchSpare) : k \in {1, MaxAttempts}}

SampleDetail ==
    {Pad(<<last>>, Plan("200", TRUE)) : last \in DetailLast}
        \cup {Pad(PlanOf(FailRun(k, "5xx")), Plan("200", TRUE)) : k \in {1, MaxAttempts}}

-----------------------------------------------------------------------------
(* fda_daily_values.py and the percent-of-daily-value helpers of app.py.   *)
(* A nutrient key is a sequence of one-character strings. A totals dict is *)
(* the sequence of its items [k, v] in iteration (insertion) order, v the  *)
(* amount. A percent is PyNone or Num(p), p the percent in tenths (the     *)
(* value after round(pct, 1)); the quotients are computed exactly, the     *)
(* binary rounding error of the float division is left out.                *)

\* s.endswith(suf)
EndsWith(s, suf) ==
    Len(s) >= Len(suf) /\ SubSeq(s, Len(s) - Len(suf) + 1, Len(s)) = suf

\* s.startswith(pre)
StartsWith(s, pre) == Len(s) >= Len(pre) /\ SubSeq(s, 1, Len(pre)) = pre

\* sub in s
Contains(sub, s) ==
    \E i \in 0..(Len(s) - Len(sub)) : SubSeq(s, i + 1, i + Len(sub)) = sub

\* One entry of FDA_DV: the key and the daily value in tenths of its unit.
Dv(key, dv10) == [k |-> key, dv10 |-> dv10]

\* FDA_DV, in the order of the dict literal.
FDA_DV ==
    <<
       Dv(<<"t", "o", "t", "a", "l", "_", "f", "a", "t", "_", "g">>, 780),
       Dv(<<"s", "a", "t", "u", "r", "a", "t", "e", "d", "_", "f", "a", "t", "_", "g">>, 200),
       Dv(<<"c", "h", "o", "l", "e", "s", "t", "e", "r", "o", "l", "_", "m", "g">>, 3000),
       Dv(<<"s", "o", "d", "i", "u", "m", "_", "m", "g">>, 23000),
       Dv(<<"t", "o", "t", "a", "l", "_", "c", "a", "r", "b", "o", "h", "y", "d", "r", "a", "t", "e", "_", "g">>, 2750),
       Dv(<<"d", "i", "e", "t", "a", "r", "y", "_", "f", "i", "b", "e", "r", "_", "g">>, 280),
       Dv(<<"a", "d", "d", "e", "d", "_", "s", "u", "g", "a", "r", "s", "_", "g">>, 500),
       Dv(<<"p", "r", "o", "t", "e", "i", "n", "_", "g">>, 500),
       Dv(<<"v", "i", "t", "a", "m", "i", "n", "_", "D", "_", "m", "c", "g">>, 200),
       Dv(<<"c", "a", "l", "c", "i", "u", "m", "_", "m", "g">>, 13000),
       Dv(<<"i", "r", "o", "n", "_", "m", "g">>, 180),
       Dv(<<"p", "o", "t", "a", "s", "s", "i", "u", "m", "_", "m", "g">>, 47000),
       Dv(<<"v", "i", "t", "a", "m", "i", "n", "_", "A", "_", "m", "c", "g", "_", "R", "A", "E">>, 9000),
       Dv(<<"v", "i", "t", "a", "m", "i", "n", "_", "C", "_", "m", "g">>, 900),
       Dv(<<"v", "i", "t", "a", "m", "i", "n", "_", "E", "_", "m", "g">>, 150),
       Dv(<<"v", "i", "t", "a", "m", "i", "n", "_", "K", "_", "m", "c", "g">>, 1200),
       Dv(<<"t", "h", "i", "a", "m", "i", "n", "_", "m", "g">>, 12),
       Dv(<<"r", "i", "b", "o", "f", "l", "a", "v", "i", "n", "_", "m", "g">>, 13),
       Dv(<<"n", "i", "a", "c", "i", "n", "_", "m", "g", "_", "N", "E">>, 160),
       Dv(<<"v", "i", "t", "a", "m", "i", "n", "_", "B", "6", "_", "m", "g">>, 17),
       Dv(<<"f", "o", "l", "a", "t", "e", "_", "m", "c", "g", "_", "D", "F", "E">>, 4000),
       Dv(<<"v", "i", "t", "a", "m", "i", "n", "_", "B", "1", "2", "_", "m", "c", "g">>, 24),
       Dv(<<"b", "i", "o", "t", "i", "n", "_", "m", "c", "g">>, 300),
       Dv(<<"p", "a", "n", "t", "o", "t", "h", "e", "n", "i", "c", "_", "a", "c", "i", "d", "_", "m", "g">>, 50),
       Dv(<<"m", "a", "g", "n", "e", "s", "i", "u", "m", "_", "m", "g">>, 4200),
       Dv(<<"z", "i", "n", "c", "_", "m", "g">>, 110),
       Dv(<<"s", "e", "l", "e", "n", "i", "u", "m", "_", "m", "c", "g">>, 550)
    >>

DvKeys == [i \in 1..Len(FDA_DV) |-> FDA_DV[i].k]

\* An item of a totals dict.
Entry(k, v) == [k |-> k, v |-> v]

\* The suffixes find_best_nutrient_key strips, in the order of its tuple.
Suffixes ==
    <<<<"_", "m", "g">>, <<"_", "m", "c", "g">>,
      <<"_", "g">>, <<"_", "k", "c", "a", "l">>,
      <<"_", "R", "A", "E">>, <<"_", "N", "E">>>>

\* for suffix in (...): if base.endswith(suffix): base = base[:-len(suffix)]
RECURSIVE StripSuffixes(_, _)
StripSuffixes(base, i) ==
    IF i > Len(Suffixes) THEN base
    ELSE StripSuffixes(IF EndsWith(base, Suffixes[i])
                       THEN SubSeq(base, 1, Len(base) - Len(Suffixes[i]))
                       ELSE base,
                       i + 1)

\* base, lower-cased
BaseName(target_key) == Lower(StripSuffixes(target_key, 1))

\* Return values of find_best_nutrient_key: None, or (k, available[k]).
NoMatch == [found |-> FALSE, k |-> <<>>, v |-> 0]

Match(e) == [found |-> TRUE, k |-> e.k, v |-> e.v]

\* First loop over available.keys(), from the item i on.
RECURSIVE FirstBaseMatch(_, _, _)
FirstBaseMatch(base, available, i) ==
    IF i > Len(available) THEN NoMatch
    ELSE LET k_lower == Lower(available[i].k)
         IN IF k_lower = base \/ StartsWith(k_lower, base \o <<"_">>)
            THEN Match(available[i])
            ELSE FirstBaseMatch(base, available, i + 1)

\* Second loop over available.keys(), from the item i on.
RECURSIVE FirstContaining(_, _, _)
FirstContaining(base, available, i) ==
    IF i > Len(available) THEN NoMatch
    ELSE IF Contains(base, Lower(available[i].k))
         THEN Match(available[i])
         ELSE FirstContaining(base, available, i + 1)

\* Mutant of FindBestNutrientKey: one loop tests the base name and the
\* containment together.
RECURSIVE FirstOfEither(_, _, _)
FirstOfEither(base, available, i) ==
    IF i > Len(available) THEN NoMatch
    ELSE LET k_lower == Lower(available[i].k)
         IN IF \/ k_lower = base
               \/ StartsWith(k_lower, base \o <<"_">>)
               \/ Contains(base, k_lower)
            THEN Match(available[i])
            ELSE FirstOfEither(base, available, i + 1)

FindBestNutrientKeyOneLoop(target_key, available) ==
    IF available = <<>> THEN NoMatch
    ELSE IF \E i \in 1..Len(available) : available[i].k = target_key
    THEN Match(available[CHOOSE i \in 1..Len(available) :
                             available[i].k = target_key])
    ELSE FirstOfEither(BaseName(target_key), available, 1)

\* find_best_nutrient_key(target_key, available)
FindBestNutrientKey(target_key, available) ==
    IF available = <<>> THEN NoMatch
    ELSE IF \E i \in 1..Len(available) : available[i].k = target_key
    THEN Match(available[CHOOSE i \in 1..Len(available) :
                             available[i].k = target_key])
    ELSE LET b == FirstBaseMatch(BaseName(target_key), available, 1)
         IN IF b.found THEN b
            ELSE FirstContaining(BaseName(target_key), available, 1)

\* from_unit / target_unit of compute_percent_dv: the unit the end of the
\* key names, "none" for None.
KeyUnit(key) ==
    IF EndsWith(key, <<"_", "m", "g">>) THEN "mg"
    ELSE IF EndsWith(key, <<"_", "m", "c", "g">>) THEN "mcg"
    ELSE IF EndsWith(key, <<"_", "g">>) THEN "g"
    ELSE IF EndsWith(key, <<"_", "k", "c", "a", "l">>) THEN "kcal"
    ELSE "none"

\* _unit_to_base(unit_str), on lower-case unit names ("none" for None)
UnitToBase(unit_str) ==
    IF unit_str \in {"none", ""} THEN "none"
    ELSE IF unit_str \in {"g", "gram", "grams"} THEN "g"
    ELSE IF unit_str \in {"mg", "milligram", "milligrams"} THEN "mg"
    ELSE IF unit_str \in {"mcg", MicroG, "microgram", "micrograms"} THEN "mcg"
    ELSE IF unit_str \in {"kcal", "calories", "cal"} THEN "kcal"
    ELSE unit_str

\* The arithmetic _convert_value_to_target applies to float(value):
\* "x1000" (* 1000.0), "/1000" (/ 1000.0) or "x1" (the value as it is).
TargetScale(from_unit, to_unit) ==
    LET fu == UnitToBase(from_unit)
        tu == UnitToBase(to_unit)
    IN IF fu = tu \/ tu = "none" \/ fu = "none" THEN "x1"
       ELSE IF fu \in {"mcg", MicroG} /\ tu = "mg" THEN "/1000"
       ELSE IF fu = "mg" /\ tu \in {"mcg", MicroG} THEN "x1000"
       ELSE IF fu = "g" /\ tu = "mg" THEN "x1000"
       ELSE IF fu = "mg" /\ tu = "g" THEN "/1000"
       ELSE "x1"

\* An exact quotient n / d.
Ratio(n, d) == [t |-> "num", n |-> n, d |-> d]

\* Mutant of ConvertValueToTarget: the two factors are exchanged.
ConvertValueToTargetSwapped(value, from_unit, to_unit) ==
    IF value.t # "num" THEN PyNone
    ELSE CASE TargetScale(from_unit, to_unit) = "x1000" ->
                Ratio(value.v, 1000)
           [] TargetScale(from_unit, to_unit) = "/1000" ->
                Ratio(value.v * 1000, 1)
           [] OTHER -> Ratio(value.v, 1)

\* _convert_value_to_target(value, from_unit, to_unit) in exact arithmetic.
ConvertValueToTarget(value, from_unit, to_unit) ==
    IF value.t # "num" THEN PyNone
    ELSE CASE TargetScale(from_unit, to_unit) = "x1000" ->
                Ratio(value.v * 1000, 1)
           [] TargetScale(from_unit, to_unit) = "/1000" ->
                Ratio(value.v, 1000)
           [] OTHER -> Ratio(value.v, 1)

\* n / d (d > 0) rounded to the nearest integer, a tie to the even one.
RoundDiv(n, d) ==
    LET q == n \div d
        r == n % d
    IN IF 2 * r < d THEN q
       ELSE IF 2 * r > d THEN q + 1
       ELSE IF q % 2 = 0 THEN q ELSE q + 1

\* Mutant of PercentOf: the quotient is inverted, dv_value / val_converted
\* (None when the division raises).
PercentOfInverted(val_converted, dv10) ==
    IF dv10 = 0 \/ val_converted.n = 0 THEN PyNone
    ELSE IF val_converted.n > 0
    THEN Num(RoundDiv(dv10 * val_converted.d * 100, val_converted.n))
    ELSE Num(RoundDiv(0 - dv10 * val_converted.d * 100, 0 - val_converted.n))

\* round((val_converted / dv_value) * 100.0, 1) if dv_value else None
PercentOf(val_converted, dv10) ==
    IF dv10 = 0 THEN PyNone
    ELSE Num(RoundDiv(val_converted.n * 10000, val_converted.d * dv10))

\* out[dv_key] of compute_percent_dv
PercentFor(dv, micronutrient_totals) ==
    LET match == FindBestNutrientKey(dv.k, micronutrient_totals)
    IN IF ~match.found THEN PyNone
       ELSE LET val_converted ==
                    ConvertValueToTarget(AsFloat(Num(match.v)),
                                         KeyUnit(match.k), KeyUnit(dv.k))
            IN IF val_converted.t # "num" THEN PyNone
               ELSE PercentOf(val_converted, dv.dv10)

\* compute_percent_dv(micronutrient_totals): the items of out, in order.
ComputePercentDv(micronutrient_totals) ==
    [i \in 1..Len(FDA_DV) |->
        Entry(FDA_DV[i].k, PercentFor(FDA_DV[i], micronutrient_totals))]

\* Mutant of ClassifyPercentDv: the two thresholds are tested in the other
\* order.
ClassifyModerateFirst(pct) ==
    IF pct.t = "none" THEN "unknown"
    ELSE IF pct.v >= 50 THEN "moderate"
    ELSE IF pct.v >= 200 THEN "high"
    ELSE "low"

\* classify_percent_dv(pct): the "category" of the dict it returns
ClassifyPercentDv(pct) ==
    IF pct.t = "none" THEN "unknown"
    ELSE IF pct.v >= 200 THEN "high"
    ELSE IF pct.v >= 50 THEN "moderate"
    ELSE "low"

\* {k: classify_percent_dv(v) for k, v in percent_dv.items()}
PercentDvFriendly(percent_dv) ==
    [i \in 1..Len(percent_dv) |->
        [k |-> percent_dv[i].k, pct |-> percent_dv[i].v,
         category |-> ClassifyPercentDv(percent_dv[i].v)]]

\* [(k, v) for k, v in percent_dv.items() if v is not None]
RECURSIVE NonNull(_)
NonNull(items) ==
    IF items = <<>> THEN <<>>
    ELSE IF Head(items).v.t = "none" THEN NonNull(Tail(items))
    ELSE <<Head(items)>> \o NonNull(Tail(items))

\* Mutant of InsertByPct: the sort is not stable, e goes before the items
\* that are equal.
RECURSIVE InsertByPctUnstable(_, _)
InsertByPctUnstable(sorted, e) ==
    IF sorted = <<>> THEN <<e>>
    ELSE IF Head(sorted).v.v < e.v.v
    THEN <<Head(sorted)>> \o InsertByPctUnstable(Tail(sorted), e)
    ELSE <<e>> \o sorted

\* One step of the stable sort by x[1]: e goes after every item that is not
\* greater.
RECURSIVE InsertByPct(_, _)
InsertByPct(sorted, e) ==
    IF sorted = <<>> THEN <<e>>
    ELSE IF Head(sorted).v.v <= e.v.v
    THEN <<Head(sorted)>> \o InsertByPct(Tail(sorted), e)
    ELSE <<e>> \o sorted

\* sorted(items, key=lambda x: x[1])
RECURSIVE SortedByPct(_)
SortedByPct(items) ==
    IF items = <<>> THEN <<>>
    ELSE InsertByPct(SortedByPct(SubSeq(items, 1, Len(items) - 1)),
                     items[Len(items)])

\* [:8] of top_lacking
TopCount == 8

\* top_lacking
TopLacking(percent_dv) ==
    LET all == SortedByPct(NonNull(percent_dv))
    IN SubSeq(all, 1, IF Len(all) < TopCount THEN Len(all) ELSE TopCount)

-----------------------------------------------------------------------------
(* Python floats: binary64 with round-to-nearest, ties to even. A float is *)
(* zero, an infinity, or sign * m * 2^e with 2^52 <= m < 2^53; m is a      *)
(* sequence of four 16-bit limbs, the least significant first. Subnormal   *)
(* numbers and NaN are not modelled.                                       *)

LimbBase == 65536

Float64(s, m, e) == [k |-> "fin", s |-> s, m |-> m, e |-> e]

Zero64 == [k |-> "zero", s |-> 1, m |-> <<0, 0, 0, 0>>, e |-> 0]

Inf64(s) == [k |-> "inf", s |-> s, m |-> <<0, 0, 0, 0>>, e |-> 0]

\* The largest exponent of a finite float: m * 2^971 < 2^1024.
MaxExp64 == 971

\* a * f from limb i on, for a small factor f
RECURSIVE MulFrom(_, _, _, _)
MulFrom(a, f, i, carry) ==
    IF i > Len(a) THEN <<>>
    ELSE <<(a[i] * f + carry) % LimbBase>>
         \o MulFrom(a, f, i + 1, (a[i] * f + carry) \div LimbBase)

BigMul(a, f) == MulFrom(a, f, 1, 0)

\* Quotient and remainder of a by a small divisor d, from limb i down.
RECURSIVE DivFrom(_, _, _, _)
DivFrom(a, d, i, rem) ==
    IF i = 0 THEN [q |-> <<>>, r |-> rem]
    ELSE LET top == rem * LimbBase + a[i]
             rest == DivFrom(a, d, i - 1, top % d)
         IN [q |-> Append(rest.q, top \div d), r |-> rest.r]

BigDivMod(a, d) == DivFrom(a, d, Len(a), 0)

\* a + 1
RECURSIVE IncFrom(_, _)
IncFrom(a, i) ==
    IF i > Len(a) THEN a
    ELSE IF a[i] + 1 < LimbBase THEN [a EXCEPT ![i] = a[i] + 1]
    ELSE IncFrom([a EXCEPT ![i] = 0], i + 1)

BigInc(a) == IncFrom(a, 1)

\* The quotient qr.q with remainder qr.r of a division by d, rounded to the
\* nearest integer, a tie to the even one.
RoundNearestEven(qr, d) ==
    IF 2 * qr.r > d \/ (2 * qr.r = d /\ qr.q[1] % 2 = 1)
    THEN BigInc(qr.q) ELSE qr.q

\* The float of sign s and value m * 2^e, m rounded already: a mantissa
\* that rounding carried to 2^53 is 2^52 with the next exponent, and an
\* exponent above the largest is an infinity.
Normal64(s, m, e) ==
    LET mm == IF m[4] = 32 THEN <<0, 0, 0, 16>> ELSE m
        ee == IF m[4] = 32 THEN e + 1 ELSE e
    IN IF ee > MaxExp64 THEN Inf64(s) ELSE Float64(s, mm, ee)

\* x * 1000.0: the product 1000 * m has 62 or 63 bits, of which 53 stay.
Mul1000(x) ==
    IF x.k # "fin" THEN x
    ELSE LET p == BigMul(x.m, 1000)
             sh == IF p[4] >= 16384 THEN 10 ELSE 9
             two == IF sh = 10 THEN 1024 ELSE 512
         IN Normal64(x.s, RoundNearestEven(BigDivMod(p, two), two), x.e + sh)

\* x / 1000.0: m * 2^10 / 1000 has 53 or 54 bits; with 54, m * 2^9 / 1000
\* has 53.
Div1000(x) ==
    IF x.k # "fin" THEN x
    ELSE LET q10 == BigDivMod(BigMul(x.m, 1024), 1000)
             q9 == BigDivMod(BigMul(x.m, 512), 1000)
         IN IF q10.q[4] >= 32
            THEN Normal64(x.s, RoundNearestEven(q9, 1000), x.e - 9)
            ELSE Normal64(x.s, RoundNearestEven(q10, 1000), x.e - 10)

\* The arithmetic of a converter on a float.
Scaled(value, scale) ==
    CASE scale = "x1000" -> Mul1000(value)
      [] scale = "/1000" -> Div1000(value)
      [] OTHER -> value

\* _convert_unit(value, from_unit, to_unit) on a float
ConvertUnitFloat(value, from_unit, to_unit) ==
    Scaled(value, UnitScale(from_unit, to_unit))

\* _convert_value_to_target(value, from_unit, to_unit) on a float
ConvertValueToTargetFloat(value, from_unit, to_unit) ==
    Scaled(value, TargetScale(from_unit, to_unit))

-----------------------------------------------------------------------------
(* State *)

VARIABLES
    apiKey,       \* API_KEY is set (read once, at import)
    cache,        \* content of the cache file fdc_cache.json
    res,          \* (nutrients, provenance) returned by the last lookup
    \* analyze_items (Spec)
    pc,           \* "idle", "loop" (between two iterations), "done"
                  \* (answered), "failed" (answered 500)
    n,            \* items of the batch taken so far
    cur,          \* c, the item of the last iteration
    totals,       \* micronutrient_totals
    prov,         \* per_item_provenance
    confirmed,    \* the items of payload["confirmed"] that the loop has taken
    looked,       \* the arguments of the calls of lookup_food_nutrients that
                  \* the handler has made, in order
    \* lookup_food_nutrients called in a row (SpecLookup)
    lpc,          \* "ready" (no lookup running), "detail" (the search
                  \* returned a food, get_food_by_fdcid is to be called)
    nLookups,     \* lookups started so far
    query,        \* the argument of the running or last lookup
    loaded,       \* the dict it read with _load_cache
    chosen,       \* fdcId of the first food of the search answer
    call,         \* the last _safe_get call (IdleCall: none was made)
    searchCalls,  \* per cache key: search calls sent to the service
    detailCalls,  \* per cache key: detail calls sent to the service
    cacheWrites,  \* per cache key: writes of the cache file setting the key
    resolved,     \* per cache key: what each lookup of it returned and
                  \* from where ("cache" or "service"), in order
    \* the summary that ends a request (SpecDv)
    dpc,          \* "totals" (the totals are accumulated), "answered"
    dvTotals,     \* micronutrient_totals, the items in iteration order
    percent_dv,   \* percent_dv, the items in iteration order
    percent_dv_friendly,  \* percent_dv_friendly, likewise
    top_lacking,  \* top_lacking
    before,       \* percent_dv of the request before, <<>> if none
    raised,       \* the item of dvTotals that is larger than in the request
                  \* before, 0 if none
    \* concurrent calls of lookup_food_nutrients (SpecRace)
    fileText,     \* what the cache file holds: "json" (the dict `cache`),
                  \* "empty" (truncated by an open for writing), "garbled"
                  \* (the text of one dict followed by the end of another)
    wpc,          \* per worker: "start", "loaded", "fetched", "writing",
                  \* "done"
    wquery,       \* per worker: the query of its call
    wcache,       \* per worker: its local dict `cache`
    wrote,        \* the workers whose call reached _save_cache and returned
    \* a value converted to another unit and back (SpecConv)
    cpc,          \* "start", "forth" (converted), "back" (converted back)
    cfun,         \* the converter: "_convert_unit", "_convert_value_to_target"
    cunits,       \* <<unit of the value, unit it is converted to>>
    cvalue,       \* the value
    cmid,         \* the value in the other unit
    cout          \* the value converted back

vars == <<apiKey, cache, res, pc, n, cur, totals, prov, confirmed, looked, lpc, nLookups, query,
          loaded, chosen, call, searchCalls, detailCalls, cacheWrites, resolved,
          dpc, dvTotals, percent_dv, percent_dv_friendly, top_lacking, before,
          raised, fileText, wpc, wquery, wcache, wrote,
          cpc, cfun, cunits, cvalue, cmid, cout>>

batchVars == <<pc, n, cur, totals, prov, confirmed, looked>>

lookupVars == <<lpc, nLookups, query, loaded, chosen, call, searchCalls,
                detailCalls, cacheWrites, resolved>>

dvVars == <<dpc, dvTotals, percent_dv, percent_dv_friendly, top_lacking,
            before, raised>>

\* The variables of the other specifications, which the actions of Spec and
\* SpecLookup leave alone.
raceVars == <<fileText, wpc, wquery, wcache, wrote>>

convVars == <<cpc, cfun, cunits, cvalue, cmid, cout>>

sideVars == <<dvVars, raceVars, convVars>>

\* The variables of Spec and SpecLookup.
coreVars == <<apiKey, cache, res, batchVars, lookupVars>>

Count(d, k) == IF k \in DOMAIN d THEN d[k] ELSE 0

Incr(d, k) == Put(d, k, Count(d, k) + 1)

\* A cache file left by an earlier run of the server.
OldCache ==
    [k \in {<<"a">>} |-> CacheEntry(FoodRecord(1), 1)]

\* No request is being handled and no lookup is running.
InitCore ==
    /\ res = NoResult
    /\ pc = "idle"
    /\ n = 0
    /\ cur = Item(<<>>, PyMissing, PyMissing, PyMissing, PyMissing)
    /\ totals = EmptyDict
    /\ prov = <<>>
    /\ confirmed = <<>>
    /\ looked = <<>>
    /\ lpc = "ready"
    /\ nLookups = 0
    /\ query = <<>>
    /\ loaded = EmptyDict
    /\ chosen = 0
    /\ call = IdleCall
    /\ searchCalls = EmptyDict
    /\ detailCalls = EmptyDict
    /\ cacheWrites = EmptyDict
    /\ resolved = EmptyDict

\* Nothing is summarised yet.
InitSummary ==
    /\ dpc = "totals"
    /\ percent_dv = <<>>
    /\ percent_dv_friendly = <<>>
    /\ top_lacking = <<>>
    /\ before = <<>>
    /\ raised = 0

\* Largest number of concurrent calls of lookup_food_nutrients.
NumWorkers == 2

Workers == 1..NumWorkers

\* The cache file is whole and no concurrent call is running.
InitFile ==
    /\ fileText = "json"
    /\ wpc = [w \in Workers |-> "start"]
    /\ wquery = [w \in Workers |-> <<>>]
    /\ wcache = [w \in Workers |-> EmptyDict]
    /\ wrote = {}

\* No conversion is running.
InitNoValue ==
    /\ cpc = "idle"
    /\ cfun = ""
    /\ cunits = <<"", "">>
    /\ cvalue = Zero64
    /\ cmid = Zero64
    /\ cout = Zero64

Init ==
    /\ apiKey \in BOOLEAN
    /\ cache \in {EmptyDict, OldCache}
    /\ InitCore
    /\ InitSummary
    /\ dvTotals = <<>>
    /\ InitFile
    /\ InitNoValue

-----------------------------------------------------------------------------
(* SpecLookup: lookup_food_nutrients(query), called MaxLookups times *)

Queries == {<<"a">>, <<" ", "A">>, <<"b">>}

\* The lookup of the cache key returns r, read from the cache file
\* (via = "cache") or made from what the service answered ("service").
Return(key, r, via) ==
    /\ res' = r
    /\ resolved' = Put(resolved, key,
                       Append(IF key \in DOMAIN resolved
                              THEN resolved[key] ELSE <<>>,
                              [result |-> r, via |-> via]))
    /\ lpc' = "ready"

\* lookup_food_nutrients(q) is called: the cache file is read.
Called(q) ==
    /\ lpc = "ready"
    /\ nLookups < MaxLookups
    /\ q \in Queries
    /\ nLookups' = nLookups + 1
    /\ query' = q
    /\ loaded' = cache

\* The key is in the cache.
LookupHit(q) ==
    /\ Called(q)
    /\ CacheKey(q) \in DOMAIN cache
    /\ Return(CacheKey(q), CacheHit(cache, CacheKey(q)), "cache")
    /\ call' = IdleCall
    /\ UNCHANGED <<apiKey, cache, chosen, searchCalls, detailCalls, cacheWrites>>
    /\ UNCHANGED <<batchVars, sideVars>>

\* A miss; search_food gives nothing to fetch (None, {} or no foods).
LookupSearchMiss(q, sAns) ==
    /\ Called(q)
    /\ CacheKey(q) \notin DOMAIN cache
    /\ LET s == SearchFood(apiKey, sAns)
       IN /\ SearchOutcome(s) # "chosen"
          /\ Return(CacheKey(q), SearchMiss(s), "service")
          /\ call' = s
          /\ searchCalls' = IF s.asked # <<>>
                            THEN Incr(searchCalls, CacheKey(q)) ELSE searchCalls
    /\ UNCHANGED <<apiKey, cache, chosen, detailCalls, cacheWrites>>
    /\ UNCHANGED <<batchVars, sideVars>>

\* A miss; search_food gives foods, the first is chosen.
LookupChosen(q, sAns) ==
    /\ Called(q)
    /\ CacheKey(q) \notin DOMAIN cache
    /\ LET s == SearchFood(apiKey, sAns)
       IN /\ SearchOutcome(s) = "chosen"
          /\ chosen' = ChosenId(s)
          /\ call' = s
          /\ searchCalls' = Incr(searchCalls, CacheKey(q))
    /\ lpc' = "detail"
    /\ UNCHANGED <<apiKey, cache, res, detailCalls, cacheWrites, resolved>>
    /\ UNCHANGED <<batchVars, sideVars>>

\* get_food_by_fdcid(fdcId) returns, and lookup_food_nutrients after it.
LookupDetail(dPlan) ==
    /\ lpc = "detail"
    /\ LET d == GetFoodByFdcid(apiKey, DetailAnswers(dPlan, chosen))
           a == AfterDetail(loaded, CacheKey(query), chosen, d)
       IN /\ call' = d
          /\ detailCalls' = IF d.asked # <<>>
                            THEN Incr(detailCalls, CacheKey(query)) ELSE detailCalls
          /\ cache' = a.cache
          /\ cacheWrites' = IF a.wrote
                            THEN Incr(cacheWrites, CacheKey(query)) ELSE cacheWrites
          /\ Return(CacheKey(query), a.result, "service")
    /\ UNCHANGED <<apiKey, nLookups, query, loaded, chosen, searchCalls>>
    /\ UNCHANGED <<batchVars, sideVars>>

NextLookup ==
    \/ \E q \in Queries : LookupHit(q)
    \/ \E q \in Queries, sAns \in SearchTranscripts : LookupSearchMiss(q, sAns)
    \/ \E q \in Queries, sAns \in SearchTranscripts : LookupChosen(q, sAns)
    \/ \E dPlan \in DetailPlans : LookupDetail(dPlan)

SpecLookup == Init /\ [][NextLookup]_vars

-----------------------------------------------------------------------------
(* Spec: analyze_items, one iteration of its loop per action *)

\* not nutrients
NoNutrients(r) == r.none \/ r.nutrients = EmptyDict

\* micronutrient_totals after the iteration for c, whose lookup returned r:
\* nothing is added without nutrients and manual calories ("continue"), the
\* nutrients are added when there are some, else the manual calories.
TotalsAfter(tot, c, r) ==
    IF NoNutrients(r) /\ ManualCal(c).t = "none" THEN tot
    ELSE IF ~NoNutrients(r) THEN AddResolved(tot, r.nutrients, Multiplier(c))
    ELSE AddManual(tot, ManualCal(c), Multiplier(c))

\* Mutant of ProvRecord: the "continue" of the branch without data is lost,
\* and the item goes on to the manual-calories branch.
ProvRecordNoContinue(c, r) ==
    IF r.none \/ r.nutrients = EmptyDict
    THEN [raw |-> ItemName(c), mapped_to |-> ItemName(c),
          quantity |-> QtyArg(c).v, portion_mult |-> PyMissing,
          source |-> "manual_calories"]
    ELSE [raw |-> ItemName(c), mapped_to |-> ItemName(c),
          quantity |-> QtyArg(c).v, portion_mult |-> PortionArg(c),
          source |-> r.provenance.source]

\* The record appended to per_item_provenance (mapped_to = <<>> for None,
\* portion_mult = PyMissing where the record has no such key, source the
\* "source" of its provenance).
ProvRecord(c, r) ==
    LET rec(mapped, pm, source) ==
            [raw |-> ItemName(c), mapped_to |-> mapped,
             quantity |-> QtyArg(c).v, portion_mult |-> pm, source |-> source]
    IN IF NoNutrients(r) /\ ManualCal(c).t = "none"
       THEN rec(<<>>, PyMissing, "fdc_no_data")
       ELSE IF ~NoNutrients(r)
       THEN rec(ItemName(c), PortionArg(c), r.provenance.source)
       ELSE rec(ItemName(c), PyMissing, "manual_calories")

\* Entry of the handler: the totals and the provenance list are created.
Begin ==
    /\ pc = "idle"
    /\ pc' = "loop"
    /\ totals' = EmptyDict
    /\ prov' = <<>>
    /\ UNCHANGED <<apiKey, cache, res, n, cur, confirmed, looked>>
    /\ UNCHANGED <<lookupVars, sideVars>>

\* for c in confirmed: the batch holds one more item.
InLoop == pc = "loop" /\ n < MaxItems

\* c is the next item of the batch.
Takes(c) ==
    /\ InLoop
    /\ c \in Items
    /\ cur' = c
    /\ confirmed' = Append(confirmed, c)

\* The name is empty after strip(): continue.
SkipItem(c) ==
    /\ Takes(c)
    /\ ItemName(c) = <<>>
    /\ n' = n + 1
    /\ UNCHANGED <<apiKey, cache, res, pc, totals, prov, looked>>
    /\ UNCHANGED <<lookupVars, sideVars>>

\* float() of the quantity or of the portion multiplier raises: the except
\* clause of the handler answers 500 for the whole batch.
BadItem(c) ==
    /\ Takes(c)
    /\ ItemName(c) # <<>>
    /\ ~(FloatOk(QtyArg(c)) /\ FloatOk(PortionArg(c)))
    /\ pc' = "failed"
    /\ UNCHANGED <<apiKey, cache, res, n, totals, prov, looked>>
    /\ UNCHANGED <<lookupVars, sideVars>>

\* The iteration reaches lookup_food_nutrients(name), which takes the way
\* l, and ends with the totals and the provenance list updated.
Iterates(c, l) ==
    /\ Takes(c)
    /\ ItemName(c) # <<>>
    /\ FloatOk(QtyArg(c)) /\ FloatOk(PortionArg(c))
    /\ looked' = Append(looked, ItemName(c))
    /\ res' = l.result
    /\ cache' = l.cache
    /\ totals' = TotalsAfter(totals, c, res')
    /\ prov' = Append(prov, ProvRecord(c, res'))
    /\ n' = n + 1
    /\ UNCHANGED <<apiKey, pc>>
    /\ UNCHANGED <<lookupVars, sideVars>>

\* The lookup finds the key in the cache.
ItemCached(c) ==
    /\ InLoop
    /\ CacheKey(ItemName(c)) \in DOMAIN cache
    /\ Iterates(c, LookupFoodNutrients(apiKey, cache, ItemName(c), <<>>, <<>>))

\* The lookup misses the cache and its search gives nothing to fetch.
ItemSearchMiss(c, sAns) ==
    /\ InLoop
    /\ CacheKey(ItemName(c)) \notin DOMAIN cache
    /\ SearchOutcome(SearchFood(apiKey, sAns)) # "chosen"
    /\ Iterates(c, LookupFoodNutrients(apiKey, cache, ItemName(c), sAns, <<>>))

\* The lookup misses the cache and asks for the record of the first food.
ItemFetched(c, sAns, dPlan) ==
    /\ InLoop
    /\ CacheKey(ItemName(c)) \notin DOMAIN cache
    /\ SearchOutcome(SearchFood(apiKey, sAns)) = "chosen"
    /\ Iterates(c, LookupFoodNutrients(apiKey, cache, ItemName(c), sAns, dPlan))

\* The loop is over (the batch had n items): the response is built.
EndBatch ==
    /\ pc = "loop"
    /\ pc' = "done"
    /\ UNCHANGED <<apiKey, cache, res, n, cur, totals, prov, confirmed, looked>>
    /\ UNCHANGED <<lookupVars, sideVars>>

Next ==
    \/ Begin
    \/ \E c \in Items : SkipItem(c)
    \/ \E c \in Items : BadItem(c)
    \/ \E c \in Items : ItemCached(c)
    \/ \E c \in Items, sAns \in SampleSearch : ItemSearchMiss(c, sAns)
    \/ \E c \in Items, sAns \in SampleSearch, dPlan \in SampleDetail :
          ItemFetched(c, sAns, dPlan)
    \/ EndBatch

Spec == Init /\ [][Next]_vars

-----------------------------------------------------------------------------
(* SpecDv: the summary that ends analyze_items and                         *)
(* analyze_image_with_micronutrients (percent_dv, percent_dv_friendly,     *)
(* top_lacking), for the totals of one request and for those of a later    *)
(* request in which one total is larger.                                   *)

\* Items of totals dicts: keys of FDA_DV and keys of other spellings and
\* units, as cache entries of other origins hold them.
SampleEntries ==
    <<
      Entry(<<"s", "o", "d", "i", "u", "m", "_", "m", "g">>, 2300),
      Entry(<<"s", "o", "d", "i", "u", "m", "_", "m", "g">>, 2),
      Entry(<<"s", "o", "d", "i", "u", "m", "_", "m", "g">>, 3),
      Entry(<<"s", "o", "d", "i", "u", "m", "_", "m", "g">>, 460),
      Entry(<<"S", "o", "d", "i", "u", "m">>, 23),
      Entry(<<"s", "a", "t", "u", "r", "a", "t", "e", "d", "_", "f", "a", "t", "_", "g">>, 1),
      Entry(<<"s", "a", "t", "u", "r", "a", "t", "e", "d", "_", "f", "a", "t", "_", "g">>, 4),
      Entry(<<"p", "r", "o", "t", "e", "i", "n", "_", "g">>, 0),
      Entry(<<"p", "r", "o", "t", "e", "i", "n", "_", "m", "c", "g">>, 5),
      Entry(<<"c", "a", "l", "c", "i", "u", "m", "_", "g">>, 1),
      Entry(<<"t", "o", "t", "a", "l", "_", "f", "a", "t", "_", "m", "g">>, 780),
      Entry(<<"t", "o", "t", "a", "l", "_", "f", "a", "t", "_", "k", "c", "a", "l">>, 39),
      Entry(<<"i", "r", "o", "n">>, 9),
      Entry(<<"e", "n", "v", "i", "r", "o", "n", "_", "g">>, 1),
      Entry(<<"v", "i", "t", "a", "m", "i", "n", "_", "d", "_", "m", "g">>, 1),
      Entry(<<"v", "i", "t", "a", "m", "i", "n", "_", "d", "2", "_", "m", "c", "g">>, 3),
      Entry(<<"v", "i", "t", "a", "m", "i", "n", "_", "A", "_", "m", "c", "g", "_", "R", "A", "E">>, 900),
      Entry(<<"n", "i", "a", "c", "i", "n", "_", "m", "g">>, 16),
      Entry(<<"c", "a", "l", "o", "r", "i", "e", "s", "_", "k", "c", "a", "l">>, 100)
    >>

\* The first m keys of FDA_DV, last first, with amounts 0..4.
TableTotals(m, a) ==
    [i \in 1..m |-> Entry(FDA_DV[m + 1 - i].k, (i * a) % 5)]

\* The totals dicts of the requests.
TotalsSamples ==
    {<<>>}
    \cup {<<SampleEntries[i]>> : i \in 1..Len(SampleEntries)}
    \cup {<<SampleEntries[i], SampleEntries[j]>> :
             i, j \in 1..Len(SampleEntries)}
    \cup {TableTotals(m, a) : m \in {8, 9, 12, Len(FDA_DV)}, a \in 0..2}

\* A dict holds a key once.
DistinctKeys(d) ==
    \A i, j \in 1..Len(d) : d[i].k = d[j].k => i = j

\* By how much a total is larger in the later request.
Increases == {1, 5}

\* macros_summary aside, the statements that end the handler: percent_dv,
\* percent_dv_friendly and top_lacking of the totals.
Summarise ==
    /\ dpc = "totals"
    /\ dpc' = "answered"
    /\ percent_dv' = ComputePercentDv(dvTotals)
    /\ percent_dv_friendly' = PercentDvFriendly(percent_dv')
    /\ top_lacking' = TopLacking(percent_dv')
    /\ UNCHANGED <<dvTotals, before, raised>>
    /\ UNCHANGED <<coreVars, raceVars, convVars>>

\* A later request whose totals differ from these in the item i only, which
\* is larger by d.
LargerTotal(i, d) ==
    /\ dpc = "answered"
    /\ raised = 0
    /\ i \in 1..Len(dvTotals)
    /\ dpc' = "totals"
    /\ dvTotals' = [dvTotals EXCEPT ![i].v = @ + d]
    /\ before' = percent_dv
    /\ raised' = i
    /\ UNCHANGED <<percent_dv, percent_dv_friendly, top_lacking>>
    /\ UNCHANGED <<coreVars, raceVars, convVars>>

InitDv ==
    /\ apiKey = FALSE
    /\ cache = EmptyDict
    /\ InitCore
    /\ InitSummary
    /\ dvTotals \in {d \in TotalsSamples : DistinctKeys(d)}
    /\ InitFile
    /\ InitNoValue

NextDv ==
    \/ Summarise
    \/ \E i \in 1..Len(FDA_DV), d \in Increases : LargerTotal(i, d)

SpecDv == InitDv /\ [][NextDv]_vars

-----------------------------------------------------------------------------
(* SpecRace: lookup_food_nutrients called by concurrent workers (threads   *)
(* or server processes) that share the cache file. Each call is a cache    *)
(* miss followed by a successful search and detail call, or a cache hit.   *)
(* Path.write_text opens the file with mode "w", which truncates it, and   *)
(* then writes the text from offset 0; no lock is taken.                   *)

\* The record the service holds for a query.
FdcIdOf(q) == IF CacheKey(q) = <<"a">> THEN 1 ELSE 2

RaceQueries == {<<"a">>, <<"A">>, <<"b">>}

\* d1 is d2 or d2 without some of its last entries: the text of d1 is not
\* longer than the text of d2.
SubDict(d1, d2) ==
    /\ DOMAIN d1 \subseteq DOMAIN d2
    /\ \A k \in DOMAIN d1 : d1[k] = d2[k]

\* _load_cache(): the dict of the file, {} when json.loads raises.
LoadCache == IF fileText = "json" THEN cache ELSE EmptyDict

\* cache = _load_cache(); key = query.lower().strip()
WorkerLoads(w, q) ==
    /\ wpc[w] = "start"
    /\ wquery' = [wquery EXCEPT ![w] = q]
    /\ wcache' = [wcache EXCEPT ![w] = LoadCache]
    /\ wpc' = [wpc EXCEPT ![w] = "loaded"]
    /\ UNCHANGED <<cache, fileText, wrote>>
    /\ UNCHANGED <<apiKey, res, batchVars, lookupVars, dvVars, convVars>>

\* if key in cache: return the entry
WorkerHits(w) ==
    /\ wpc[w] = "loaded"
    /\ CacheKey(wquery[w]) \in DOMAIN wcache[w]
    /\ wpc' = [wpc EXCEPT ![w] = "done"]
    /\ UNCHANGED <<cache, fileText, wquery, wcache, wrote>>
    /\ UNCHANGED <<apiKey, res, batchVars, lookupVars, dvVars, convVars>>

\* search_food and get_food_by_fdcid succeed; cache[key] = {...}
WorkerFetches(w) ==
    /\ wpc[w] = "loaded"
    /\ CacheKey(wquery[w]) \notin DOMAIN wcache[w]
    /\ wcache' = [wcache EXCEPT ![w] =
                     SavedCache(@, CacheKey(wquery[w]),
                                CacheEntry(FoodRecord(FdcIdOf(wquery[w])),
                                           FdcIdOf(wquery[w])))]
    /\ wpc' = [wpc EXCEPT ![w] = "fetched"]
    /\ UNCHANGED <<cache, fileText, wquery, wrote>>
    /\ UNCHANGED <<apiKey, res, batchVars, lookupVars, dvVars, convVars>>

\* _save_cache(cache): the file is opened for writing and truncated
WorkerOpens(w) ==
    /\ wpc[w] = "fetched"
    /\ fileText' = "empty"
    /\ cache' = EmptyDict
    /\ wpc' = [wpc EXCEPT ![w] = "writing"]
    /\ UNCHANGED <<wquery, wcache, wrote>>
    /\ UNCHANGED <<apiKey, res, batchVars, lookupVars, dvVars, convVars>>

\* _save_cache(cache): the text is written from offset 0 and the file is
\* closed. Text that another worker wrote since the file was opened stays
\* behind where it is longer: whole = FALSE. It is not longer when its dict
\* is part of the one written, it is longer when that one is part of it.
WorkerWrites(w, whole) ==
    /\ wpc[w] = "writing"
    /\ fileText = "empty" => whole
    /\ (fileText = "json" /\ SubDict(cache, wcache[w])) => whole
    /\ (fileText = "json" /\ SubDict(wcache[w], cache)
          /\ cache # wcache[w]) => ~whole
    /\ fileText' = IF whole THEN "json" ELSE "garbled"
    /\ cache' = IF whole THEN wcache[w] ELSE EmptyDict
    /\ wpc' = [wpc EXCEPT ![w] = "done"]
    /\ wrote' = wrote \cup {w}
    /\ UNCHANGED <<wquery, wcache>>
    /\ UNCHANGED <<apiKey, res, batchVars, lookupVars, dvVars, convVars>>

\* A cache file left by an earlier run, with an entry for another query.
OtherCache ==
    [k \in {<<"c">>} |-> CacheEntry(FoodRecord(3), 3)]

InitRace ==
    /\ apiKey = TRUE
    /\ cache \in {EmptyDict, OtherCache}
    /\ InitCore
    /\ InitSummary
    /\ dvTotals = <<>>
    /\ InitFile
    /\ InitNoValue

NextRace ==
    \/ \E w \in Workers, q \in RaceQueries : WorkerLoads(w, q)
    \/ \E w \in Workers : WorkerHits(w)
    \/ \E w \in Workers : WorkerFetches(w)
    \/ \E w \in Workers : WorkerOpens(w)
    \/ \E w \in Workers, whole \in BOOLEAN : WorkerWrites(w, whole)

SpecRace == InitRace /\ [][NextRace]_vars

-----------------------------------------------------------------------------
(* SpecConv: a float is converted to the next smaller unit and back, by    *)
(* _convert_unit of the resolver or by _convert_value_to_target of the     *)
(* percent-DV calculation.                                                 *)

\* Floats: amounts as the service sends them (1.0, 0.1, 2.5, 52.0, 1.1,
\* 0.001, 1000.0), quotients and sums of such (1/3, 116.3624549763581,
\* 53.58753184103216, 248.45904030918913, 201.1213060389849,
\* 85.99465287952899), the float below 4.0, and large ones (1.7e305, 1e306,
\* the largest float).
SampleFloats ==
    { Zero64,
      Float64(1, <<0, 0, 0, 16>>, -52),
      Float64(1, <<39322, 39321, 39321, 25>>, -56),
      Float64(-1, <<0, 0, 0, 20>>, -51),
      Float64(1, <<0, 0, 0, 26>>, -47),
      Float64(1, <<39322, 39321, 39321, 17>>, -52),
      Float64(1, <<43516, 54001, 25165, 16>>, -62),
      Float64(1, <<0, 0, 16384, 31>>, -43),
      Float64(1, <<21845, 21845, 21845, 21>>, -54),
      Float64(1, <<28352, 30299, 5938, 29>>, -46),
      Float64(1, <<19392, 15949, 52020, 26>>, -47),
      Float64(-1, <<28779, 30029, 3760, 31>>, -45),
      Float64(1, <<51179, 48435, 9185, 25>>, -45),
      Float64(1, <<7360, 25741, 32680, 21>>, -46),
      Float64(1, <<65535, 65535, 65535, 31>>, -51),
      Float64(1, <<55434, 41540, 64701, 30>>, 961),
      Float64(1, <<36905, 51747, 51429, 22>>, 964),
      Float64(1, <<65535, 65535, 65535, 31>>, 971) }

\* A unit and the next smaller one, as the two converters name them.
UnitPairs == {<<"g", "mg">>, <<"mg", "mcg">>, <<"mg", MicroG>>}

Converters == {"_convert_unit", "_convert_value_to_target"}

Convert(fun, value, from_unit, to_unit) ==
    IF fun = "_convert_unit"
    THEN ConvertUnitFloat(value, from_unit, to_unit)
    ELSE ConvertValueToTargetFloat(value, from_unit, to_unit)

\* The value is converted to the smaller unit.
ConvertForth ==
    /\ cpc = "start"
    /\ cmid' = Convert(cfun, cvalue, cunits[1], cunits[2])
    /\ cpc' = "forth"
    /\ UNCHANGED <<cfun, cunits, cvalue, cout>>
    /\ UNCHANGED <<coreVars, dvVars, raceVars>>

\* The result is converted back.
ConvertBack ==
    /\ cpc = "forth"
    /\ cout' = Convert(cfun, cmid, cunits[2], cunits[1])
    /\ cpc' = "back"
    /\ UNCHANGED <<cfun, cunits, cvalue, cmid>>
    /\ UNCHANGED <<coreVars, dvVars, raceVars>>

InitConv ==
    /\ apiKey = TRUE
    /\ cache = EmptyDict
    /\ InitCore
    /\ InitSummary
    /\ dvTotals = <<>>
    /\ InitFile
    /\ cpc = "start"
    /\ cfun \in Converters
    /\ cunits \in UnitPairs
    /\ cvalue \in SampleFloats
    /\ cmid = Zero64
    /\ cout = Zero64

NextConv ==
    \/ ConvertForth
    \/ ConvertBack

SpecConv == InitConv /\ [][NextConv]_vars

-----------------------------------------------------------------------------
(* Claims about analyze_items (Spec) *)

LastProv == prov[Len(prov)]

\* The iteration of this step appended a record to per_item_provenance.
Recorded == Len(prov') = Len(prov) + 1

NewProv == prov'[Len(prov')]

\* The vector that the lookup of a resolved item returned: the cache entry of
\* its key (an entry, once written, is never replaced in a sequential run).
VectorOf(rec) == cache[CacheKey(rec.raw)].nutrients

ResolvedRecs == {i \in 1..Len(prov) : prov[i].source = "fdc"}

RECURSIVE SumScaledCalories(_)
SumScaledCalories(S) ==
    IF S = {} THEN 0
    ELSE LET i == CHOOSE x \in S : TRUE
         IN VectorOf(prov[i])["calories_kcal"].v * prov[i].quantity
                * prov[i].portion_mult.v
            + SumScaledCalories(S \ {i})

\* C1: aggregation linearity. When the batch is answered, every resolved
\* vector holds calories_kcal and no item went the manual-calories way,
\* micronutrient_totals["calories_kcal"] is the sum over the resolved items
\* of calories_kcal x quantity x portion_mult: each scaled amount entered the
\* totals exactly once.
C1_Linearity ==
    (/\ pc = "done"
     /\ ResolvedRecs # {}
     /\ \A i \in 1..Len(prov) : prov[i].source # "manual_calories"
     /\ \A i \in ResolvedRecs :
           /\ "calories_kcal" \in DOMAIN VectorOf(prov[i])
           /\ VectorOf(prov[i])["calories_kcal"].t = "num")
    => Count(totals, "calories_kcal") = SumScaledCalories(ResolvedRecs)

ClaimedQty(c) == IF c.quantity.t = "num" THEN c.quantity.v ELSE 1

ClaimedPortion(c) == IF c.portion_mult.t = "num" THEN c.portion_mult.v ELSE 1

\* C8: quantity and multiplier defaults. The last item taken, when it has a
\* name, did not fail the batch and was recorded with its quantity, or 1.0
\* for a missing or invalid one (and likewise for its portion multiplier,
\* where the record holds it).
C8_Defaults ==
    ((n > 0 \/ pc = "failed") /\ ItemName(cur) # <<>>)
    => /\ pc # "failed"
       /\ prov # <<>>
       /\ LastProv.quantity = ClaimedQty(cur)
       /\ LastProv.portion_mult.t = "num"
             => LastProv.portion_mult.v = ClaimedPortion(cur)

\* C9: totals are never negative and never decrease: after every step each
\* entry of micronutrient_totals is >= 0 and >= its value before the step.
C9_TotalsMonotone ==
    [][\A k \in DOMAIN totals' :
          totals'[k] >= 0 /\ totals'[k] >= Count(totals, k)]_vars

\* Manual calories were supplied with the item: "calories", else
\* "manual_calories", holds a value.
ManualSupplied(c) ==
    Get(c.calories).t # "none" \/ Get(c.manual_calories).t # "none"

SuppliedCalories(c) ==
    IF Get(c.calories).t # "none" THEN Get(c.calories) ELSE Get(c.manual_calories)

\* C10: no blending of sources. The record of an item is "manual_calories"
\* if and only if manual calories were supplied and the lookup returned no
\* nutrients; a supplied number is then added to totals["calories_kcal"] as
\* calories x quantity x portion_mult (the factors as analyze_items computed
\* them).
C10_ManualIffNoNutrients ==
    [][Recorded =>
         LET no == res'.none \/ res'.nutrients = EmptyDict
         IN /\ (NewProv.source = "manual_calories")
                  <=> (ManualSupplied(cur') /\ no)
            /\ (ManualSupplied(cur') /\ no /\ SuppliedCalories(cur').t = "num")
                  => /\ "calories_kcal" \in DOMAIN totals'
                     /\ totals'["calories_kcal"] =
                           Count(totals, "calories_kcal")
                           + SuppliedCalories(cur').v * QtyArg(cur').v
                                * PortionArg(cur').v]_vars

-----------------------------------------------------------------------------
(* Claims about lookup_food_nutrients and _safe_get (SpecLookup) *)

Log(k) == resolved[k]

\* The lookup i of the key k asked the service and got a vector back.
Fetched(k, i) == Log(k)[i].via = "service" /\ ~Log(k)[i].result.none

ServiceLookups(k, upto) == {j \in 1..upto : Log(k)[j].via = "service"}

C4_Disabled ==
    (~apiKey /\ nLookups > 0)
    => /\ res.none
       /\ res.provenance.source = "disabled"
       /\ call.asked = <<>>

\* C4 as amended: without API_KEY no lookup sends a request or changes the
\* cache file; a lookup whose key is in the cache returns the stored entry,
\* any other returns None with provenance "fdc_search_failed".
C4_DisabledNoRequest ==
    (~apiKey /\ nLookups > 0)
    => /\ call.asked = <<>>
       /\ searchCalls = EmptyDict /\ detailCalls = EmptyDict
       /\ lpc = "ready"
       /\ cache = loaded
       /\ IF CacheKey(query) \in DOMAIN loaded
          THEN /\ ~res.none
               /\ res.nutrients = loaded[CacheKey(query)].nutrients
               /\ res.provenance = loaded[CacheKey(query)].provenance
          ELSE /\ res.none
               /\ res.nutrients = EmptyDict
               /\ res.provenance.source = "fdc_search_failed"

\* Without API_KEY, one lookup was served from the cache and one was not.
C4_Witness ==
    /\ ~apiKey
    /\ \E k1, k2 \in DOMAIN resolved :
          Log(k1)[1].via = "cache" /\ Log(k2)[1].result.none

\* Every request of the call failed with a 5xx answer or a timeout.
AllFailed(cl) ==
    cl.asked # <<>> /\ \A i \in 1..Len(cl.asked) : cl.asked[i] \in RetryKinds

\* C5 as claimed: no call sends a 4th request; a call whose requests all
\* failed with 5xx or a timeout sent exactly 3, waited 1, 2, 3 seconds after
\* them and returned, and the lookup reports None with provenance
\* "lookup_failed".
C5_BoundedRetry ==
    /\ Len(call.asked) <= 3
    /\ AllFailed(call)
          => /\ Len(call.asked) = 3
             /\ call.waits = <<1, 2, 3>>
             /\ call.ret = JsonNone
             /\ lpc = "ready"
             /\ res.none
             /\ res.provenance.source = "lookup_failed"

\* C5 as amended: the same, the lookup reporting None with provenance
\* "fdc_search_failed" for the search call and "fdc_detail_failed" for the
\* detail call.
C5_BoundedRetryFailed ==
    /\ Len(call.asked) <= 3
    /\ AllFailed(call)
          => /\ Len(call.asked) = 3
             /\ call.waits = <<1, 2, 3>>
             /\ call.ret = JsonNone
             /\ lpc = "ready"
             /\ res.none
             /\ res.provenance.source =
                   (IF call.url = "search" THEN "fdc_search_failed"
                                           ELSE "fdc_detail_failed")

\* A detail call whose three requests all failed.
C5_Witness == AllFailed(call) /\ call.url = "detail" /\ lpc = "ready"

\* C6: a 4xx answer ends the call at once. In a call that got one, it is
\* the answer to the last request, no wait follows it (the waits are those
\* after the earlier, retried requests), the call returns None and the
\* lookup fails for the item.
C6_ClientError ==
    (\E i \in 1..Len(call.asked) : call.asked[i] = "4xx")
    => /\ \A i \in 1..Len(call.asked) :
             call.asked[i] = "4xx" => i = Len(call.asked)
       /\ Len(call.waits) = Len(call.asked) - 1
       /\ call.ret = JsonNone
       /\ lpc = "ready"
       /\ res.none
       /\ res.provenance.source =
             (IF call.url = "search" THEN "fdc_search_failed"
                                     ELSE "fdc_detail_failed")

\* A call that got a 4xx answer after a retried request.
C6_Witness ==
    /\ Len(call.asked) > 1
    /\ call.asked[Len(call.asked)] = "4xx"

-----------------------------------------------------------------------------
(* Claims about the percent-of-daily-value summary (SpecDv) *)

Answered == dpc = "answered"

\* The item of dvTotals that compute_percent_dv uses for the entry i of
\* FDA_DV.
Found(i) == FindBestNutrientKey(FDA_DV[i].k, dvTotals)

\* The pairs of different units between which a total is converted.
ConvertiblePair(from_unit, to_unit) ==
    <<from_unit, to_unit>> \in
        {<<"g", "mg">>, <<"mg", "g">>, <<"mg", "mcg">>, <<"mcg", "mg">>}

\* The key is the reference key, or the units that end the two keys are
\* the same or convertible.
Convertible(i) ==
    \/ Found(i).k = FDA_DV[i].k
    \/ /\ KeyUnit(Found(i).k) # "none"
       /\ KeyUnit(FDA_DV[i].k) # "none"
       /\ \/ KeyUnit(Found(i).k) = KeyUnit(FDA_DV[i].k)
          \/ ConvertiblePair(KeyUnit(Found(i).k), KeyUnit(FDA_DV[i].k))

\* Both keys end with a unit and the two do not convert.
Unconvertible(i) ==
    /\ Found(i).k # FDA_DV[i].k
    /\ KeyUnit(Found(i).k) # "none"
    /\ KeyUnit(FDA_DV[i].k) # "none"
    /\ KeyUnit(Found(i).k) # KeyUnit(FDA_DV[i].k)
    /\ ~ConvertiblePair(KeyUnit(Found(i).k), KeyUnit(FDA_DV[i].k))

\* total x 1000, total / 1000 or total: the total in the unit of the
\* reference key, as numerator and denominator.
InReferenceUnit(i) ==
    IF Found(i).k = FDA_DV[i].k
       \/ KeyUnit(Found(i).k) = KeyUnit(FDA_DV[i].k)
    THEN <<Found(i).v, 1>>
    ELSE IF <<KeyUnit(Found(i).k), KeyUnit(FDA_DV[i].k)>>
               \in {<<"g", "mg">>, <<"mg", "mcg">>}
    THEN <<Found(i).v * 1000, 1>>
    ELSE <<Found(i).v, 1000>>

C12_NullWhenUnresolvable ==
    Answered =>
        \A i \in 1..Len(FDA_DV) :
            /\ ~Found(i).found => percent_dv[i].v = PyNone
            /\ (Found(i).found /\ Unconvertible(i))
                  => percent_dv[i].v = PyNone
            /\ (Found(i).found /\ Convertible(i))
                  => percent_dv[i].v.t = "num"

\* C13: classification. percent_dv_friendly has one entry for each entry of
\* percent_dv, with its percent and one category: high from 20.0 on,
\* moderate from 5.0 to below 20.0, low below 5.0, unknown for null.
C13_Classification ==
    Answered =>
        /\ Len(percent_dv_friendly) = Len(percent_dv)
        /\ \A i \in 1..Len(percent_dv) :
              LET f == percent_dv_friendly[i]
                  p == percent_dv[i].v
              IN /\ f.k = percent_dv[i].k
                 /\ f.pct = p
                 /\ f.category \in {"high", "moderate", "low", "unknown"}
                 /\ f.category = "unknown" <=> p.t = "none"
                 /\ f.category = "high" <=> (p.t = "num" /\ p.v >= 200)
                 /\ f.category = "moderate"
                       <=> (p.t = "num" /\ p.v >= 50 /\ p.v < 200)
                 /\ f.category = "low" <=> (p.t = "num" /\ p.v < 50)

\* The four categories at once, one of them at exactly 20.0.
C13_Witness ==
    /\ Answered
    /\ \A c \in {"high", "moderate", "low", "unknown"} :
          \E i \in 1..Len(percent_dv_friendly) :
              percent_dv_friendly[i].category = c
    /\ \E i \in 1..Len(percent_dv_friendly) :
          /\ percent_dv_friendly[i].pct = Num(200)
          /\ percent_dv_friendly[i].category = "high"

Rank(category) ==
    CASE category = "low" -> 1
      [] category = "moderate" -> 2
      [] category = "high" -> 3
      [] OTHER -> 0

\* The entry i of FDA_DV is computed from the total that is larger than in
\* the request before, and was computed from it then.
OfRaised(i) ==
    /\ raised # 0
    /\ Found(i).found
    /\ Found(i).k = dvTotals[raised].k
    /\ before[i].v.t = "num"
    /\ percent_dv[i].v.t = "num"

\* C14 as claimed: a strictly larger total gives a strictly larger percent
\* and a category that is the same or higher.
C14_StrictlyMonotone ==
    (Answered /\ raised # 0) =>
        \A i \in 1..Len(FDA_DV) :
            OfRaised(i) =>
                /\ percent_dv[i].v.v > before[i].v.v
                /\ Rank(ClassifyPercentDv(percent_dv[i].v))
                      >= Rank(ClassifyPercentDv(before[i].v))

\* C14 as amended: a larger total gives a percent that is larger or, after
\* the rounding to one decimal, the same, and a category that is the same
\* or higher.
C14_Monotone ==
    (Answered /\ raised # 0) =>
        \A i \in 1..Len(FDA_DV) :
            OfRaised(i) =>
                /\ percent_dv[i].v.v >= before[i].v.v
                /\ Rank(percent_dv_friendly[i].category)
                      >= Rank(ClassifyPercentDv(before[i].v))

\* A larger total moved its percent up and its category from moderate to
\* high.
C14_Witness ==
    /\ Answered
    /\ raised # 0
    /\ \E i \in 1..Len(FDA_DV) :
          /\ OfRaised(i)
          /\ percent_dv[i].v.v > before[i].v.v
          /\ ClassifyPercentDv(before[i].v) = "moderate"
          /\ percent_dv_friendly[i].category = "high"

\* The entries of percent_dv that are not null.
WithPercent == {i \in 1..Len(percent_dv) : percent_dv[i].v.t = "num"}

\* The place in percent_dv of an entry of top_lacking.
PlaceOf(e) == CHOOSE i \in 1..Len(percent_dv) : percent_dv[i].k = e.k

Listed == {PlaceOf(top_lacking[a]) : a \in 1..Len(top_lacking)}

\* C15: top-lacking list. It holds min(8, number of non-null entries)
\* entries of percent_dv, each once and none null, in ascending order of
\* percent, entries of equal percent in the order of FDA_DV; no entry left
\* out has a lower percent than a listed one, nor an equal percent and an
\* earlier place in FDA_DV.
C15_TopLacking ==
    Answered =>
        /\ Len(top_lacking) =
              (IF Cardinality(WithPercent) < 8
               THEN Cardinality(WithPercent) ELSE 8)
        /\ \A a \in 1..Len(top_lacking) :
              /\ PlaceOf(top_lacking[a]) \in WithPercent
              /\ top_lacking[a] = percent_dv[PlaceOf(top_lacking[a])]
        /\ \A a, b \in 1..Len(top_lacking) :
              a < b =>
                 \/ top_lacking[a].v.v < top_lacking[b].v.v
                 \/ /\ top_lacking[a].v.v = top_lacking[b].v.v
                    /\ PlaceOf(top_lacking[a]) < PlaceOf(top_lacking[b])
        /\ \A i \in WithPercent \ Listed :
              \A a \in 1..Len(top_lacking) :
                 \/ percent_dv[i].v.v > top_lacking[a].v.v
                 \/ /\ percent_dv[i].v.v = top_lacking[a].v.v
                    /\ PlaceOf(top_lacking[a]) < i

\* More than 8 percents, and two listed ones that are equal.
C15_Witness ==
    /\ Answered
    /\ Cardinality(WithPercent) > 8
    /\ Len(top_lacking) = 8
    /\ \E a \in 1..7 : top_lacking[a].v.v = top_lacking[a + 1].v.v
    /\ \E a \in 1..7 : top_lacking[a].v.v < top_lacking[a + 1].v.v

\* The base name of a reference key: the key without the unit or measure
\* that ends it, in lower case.
BaseOf(target_key) ==
    LET ending == {i \in 1..Len(Suffixes) : EndsWith(target_key, Suffixes[i])}
        cut == IF ending = {} THEN 0
               ELSE Len(Suffixes[CHOOSE i \in ending : TRUE])
    IN Lower(SubSeq(target_key, 1, Len(target_key) - cut))

\* The items of dvTotals that match the key at each level of priority.
ExactMatches(target_key) ==
    {j \in 1..Len(dvTotals) : dvTotals[j].k = target_key}

BaseMatches(target_key) ==
    {j \in 1..Len(dvTotals) :
        \/ Lower(dvTotals[j].k) = BaseOf(target_key)
        \/ StartsWith(Lower(dvTotals[j].k), BaseOf(target_key) \o <<"_">>)}

SubstringMatches(target_key) ==
    {j \in 1..Len(dvTotals) :
        Contains(BaseOf(target_key), Lower(dvTotals[j].k))}

First(S) == CHOOSE j \in S : \A x \in S : j <= x

\* C19: key matching priority. For every key of FDA_DV,
\* find_best_nutrient_key returns the item with that very key if there is
\* one; else the first item, in the order of the dict, that matches the
\* base name; else the first item that contains the base name; else
\* nothing.
C19_MatchPriority ==
    \A i \in 1..Len(FDA_DV) :
        LET t == FDA_DV[i].k
            r == FindBestNutrientKey(t, dvTotals)
            best == IF ExactMatches(t) # {} THEN ExactMatches(t)
                    ELSE IF BaseMatches(t) # {} THEN BaseMatches(t)
                    ELSE SubstringMatches(t)
        IN IF best = {} THEN ~r.found
           ELSE /\ r.found
                /\ r.k = dvTotals[First(best)].k
                /\ r.v = dvTotals[First(best)].v

\* The item "iron" is returned for iron_mg although "environ_g", which
\* contains the base name, comes first in the dict.
C19_Witness ==
    /\ Answered
    /\ Len(dvTotals) = 2
    /\ SubstringMatches(FDA_DV[11].k) = {1, 2}
    /\ BaseMatches(FDA_DV[11].k) = {2}
    /\ FindBestNutrientKey(FDA_DV[11].k, dvTotals).k = dvTotals[2].k

-----------------------------------------------------------------------------
(* Claims about concurrent lookups (SpecRace) *)

\* The entry a worker made for its key.
EntryOf(w) == wcache[w][CacheKey(wquery[w])]

\* C16: consistent cache writes under concurrency. When every concurrent
\* call has returned, the cache file is a well-formed dict that holds, for
\* every call that missed the cache and fetched, the entry of its key, and
\* still holds the entries it held before.
C16_ConsistentWrites ==
    (\A w \in Workers : wpc[w] = "done")
    => /\ fileText = "json"
       /\ \A w \in wrote :
             /\ CacheKey(wquery[w]) \in DOMAIN cache
             /\ cache[CacheKey(wquery[w])] = EntryOf(w)
       /\ \A w \in Workers : SubDict(wcache[w], cache)

-----------------------------------------------------------------------------
(* Claims about the items of a batch and their records (Spec) *)

\* The name holds nothing but spaces.
Blank(name) == \A i \in 1..Len(name) : name[i] = " "

\* This step is an iteration of the loop, and Taken is its item.
TakesOne == pc = "loop" /\ Len(confirmed') = Len(confirmed) + 1

Taken == confirmed'[Len(confirmed')]

\* C18: an item whose name is empty or only whitespace is skipped without
\* error: its iteration calls no lookup, leaves the totals (and the records
\* and the cache) as they were, and the loop goes on with the next item.
C18_BlankSkipped ==
    [][(TakesOne /\ Blank(Taken.item))
       => /\ looked' = looked
          /\ totals' = totals
          /\ prov' = prov
          /\ cache' = cache
          /\ pc' = "loop"
          /\ n' = n + 1]_vars

\* A batch of a blank item and a named one was answered: the named one was
\* looked up and recorded.
C18_Witness ==
    /\ pc = "done"
    /\ Len(confirmed) = 2
    /\ Blank(confirmed[1].item)
    /\ ~Blank(confirmed[2].item)
    /\ Len(looked) = 1
    /\ Len(prov) = 1

\* The submitted items with a non-empty name, in input order.
Named == SelectSeq(confirmed, LAMBDA c : ~Blank(c.item))

\* per_item_provenance of the response; the response of a failed batch
\* ({"error": ...}, status 500) has none.
ResponseProv == IF pc = "done" THEN prov ELSE <<>>

\* Record i is the record of the i-th named item.
RecordOf(i) ==
    /\ ResponseProv[i].raw = Strip(Named[i].item)
    /\ ResponseProv[i].source \in {"fdc", "manual_calories", "fdc_no_data"}

\* C20: after analyze_items finishes, per_item_provenance holds exactly one
\* record for each submitted item with a non-empty name, in input order,
\* whichever branch the item took.
C20_OneRecordPerItem ==
    pc \in {"done", "failed"}
    => /\ Len(ResponseProv) = Len(Named)
       /\ \A i \in 1..Len(Named) : RecordOf(i)

\* The same for the batches that analyze_items answers with status 200.
C20_OneRecordWhenAnswered ==
    pc = "done"
    => /\ Len(prov) = Len(Named)
       /\ \A i \in 1..Len(Named) : RecordOf(i)

-----------------------------------------------------------------------------
(* Claims about unit conversion (SpecConv) *)

\* C17 as stated: converting g to mg and back to g, or mg to mcg and back
\* to mg, with _convert_unit and with _convert_value_to_target returns the
\* original value.
C17_RoundTripIdentity == cpc = "back" => cout = cvalue

\* z in units of half the last place of x, for z at most one exponent away
\* from x.
InHalfUlps(z, x) ==
    IF z.e = x.e - 1 THEN z.m
    ELSE IF z.e = x.e THEN BigMul(z.m, 2)
    ELSE BigMul(z.m, 4)

\* z differs from x by at most one unit in the last place of x.
WithinUlp(z, x) ==
    IF x.k # "fin" THEN z = x
    ELSE /\ z.k = "fin"
         /\ z.s = x.s
         /\ z.e \in {x.e - 1, x.e, x.e + 1}
         /\ LET dz == InHalfUlps(z, x)
                dx == BigMul(x.m, 2)
            IN \/ dz \in {dx, BigInc(dx), BigInc(BigInc(dx))}
               \/ dx \in {BigInc(dz), BigInc(BigInc(dz))}

\* C17 (amended): for every finite value whose thousandfold does not
\* overflow, the round trip returns the original value within one unit in
\* its last place.
C17_RoundTripWithinUlp ==
    (cpc = "back" /\ cmid.k # "inf") => WithinUlp(cout, cvalue)

\* A value came back changed, by one unit in the last place.
C17_Witness ==
    /\ cpc = "back"
    /\ cmid.k = "fin"
    /\ cout # cvalue
    /\ WithinUlp(cout, cvalue)

-----------------------------------------------------------------------------
(* Claims about failed lookups (SpecLookup) *)

FailureSources == {"fdc_search_failed", "no_results", "fdc_detail_failed"}

\* The last lookup has returned, and returned None for the nutrients.
LookupFailed == lpc = "ready" /\ nLookups > 0 /\ res.none

\* The lookup i of the key k failed and the key was looked up again.
FailedThenAgain(k, i) == i < Len(Log(k)) /\ Log(k)[i].result.none

\* The failed lookup returned a null vector with the source of its failure
\* and left the cache file as the call had read it, without the key.
FailureLeavesCache ==
    LookupFailed
    => /\ res.nutrients = EmptyDict
       /\ res.provenance.source \in FailureSources
       /\ cache = loaded
       /\ CacheKey(query) \notin DOMAIN cache

\* C21 as claimed: a lookup that ends because the search failed, the search
\* returned no foods or the detail call failed returns a null vector and
\* leaves the cache file as it was, and the next lookup of the query
\* contacts the service again: every lookup of the key that was not a cache
\* hit sent a search request.
C21_FailedContactsAgain ==
    /\ FailureLeavesCache
    /\ lpc = "ready" =>
          \A k \in DOMAIN resolved : \A i \in 1..Len(Log(k)) :
              FailedThenAgain(k, i)
              => /\ Log(k)[i + 1].via = "service"
                 /\ Count(searchCalls, k)
                       = Cardinality(ServiceLookups(k, Len(Log(k))))

\* C21 as amended: the same, the next lookup of the query missing the cache
\* and calling search_food again, which sends a request when API_KEY is set
\* and none when it is not.
C21_FailedSearchesAgain ==
    /\ FailureLeavesCache
    /\ lpc = "ready" =>
          \A k \in DOMAIN resolved : \A i \in 1..Len(Log(k)) :
              FailedThenAgain(k, i)
              => /\ Log(k)[i + 1].via = "service"
                 /\ Count(searchCalls, k)
                       = (IF apiKey
                          THEN Cardinality(ServiceLookups(k, Len(Log(k))))
                          ELSE 0)

\* With API_KEY set, a lookup whose detail call failed was followed by
\* another lookup of the key, which asked the service.
C21_Witness ==
    /\ apiKey
    /\ lpc = "ready"
    /\ \E k \in DOMAIN resolved :
          /\ FailedThenAgain(k, 1)
          /\ Log(k)[1].result.provenance.source = "fdc_detail_failed"
          /\ Count(searchCalls, k) = 2

====
